---- MODULE Spec2Model ----
(***************************************************************************)
(* A model of the client facade of the driver (lib/client.js): the         *)
(* connect / shutdown life cycle of a Client, and the request paths        *)
(* execute, batch and eachRow that run on top of it.                       *)
(*                                                                         *)
(* JavaScript runs every handler to completion, so one action is the       *)
(* synchronous run of one function up to its next `await` (or its return); *)
(* what the backend (the native session) answers is the environment's      *)
(* choice.  Every call the application makes is one element of Calls; its  *)
(* record holds the position of that call (pc) and what it observed.       *)
(***************************************************************************)
EXTENDS Integers, Sequences, FiniteSets, TLC

\* Number of calls the application makes on one client.
NCalls == 3
\* Longest array of queries handed to batch().
MaxBatch == 2
\* Number of eachRow() calls among them.
MaxEachRow == 1
\* Number of pages the server splits a query result into, at most.
MaxPages == 2
\* Number of rows in one page, at most.
MaxRows == 2

Calls == 1..NCalls

(***************************************************************************)
(* Outcomes: what a promise settles with / what a callback receives.       *)
(* A pair <<tag, n>>; n tells the errors of different connect attempts     *)
(* apart.                                                                  *)
(***************************************************************************)
None == <<"none", 0>>
Ok == <<"ok", 0>>
ConnectError(a) == <<"ConnectError", a>>
NoHostAvailableError == <<"NoHostAvailableError", 0>>
ArgumentError == <<"ArgumentError", 0>>
OptionsError == <<"OptionsError", 0>>
NamedParamsError == <<"Error", 0>>
ResponseError == <<"ResponseError", 0>>
ShuttingDownError == <<"ShuttingDownError", 0>>

IsError(o) == o # None /\ o # Ok

VARIABLES
    connected,       \* Client.connected
    connecting,      \* Client.connecting (undefined is modelled as FALSE)
    isShuttingDown,  \* Client.isShuttingDown
    rustClient,      \* Client.rustClient: 0 (undefined) or the attempt that made it
    attempts,        \* outcome of every createSession call, in the order they were made
    listeners,       \* calls holding a once-listener of the "connected" event
    calls,           \* the application's calls
    reader,          \* a FrameReader (lib/reader.js) and what its last operation did
    duration,        \* a Duration (lib/types/duration.js), its text and what the text parses to
    iteration,       \* a ResultSet and an async iterator over it
    stream,          \* the ResultStream of a stream() call
    localTime,       \* a LocalTime (lib/types/local-time.js) in the making
    policy           \* a load balancing policy (lib/policies) and a query plan of it

vars == <<connected, connecting, isShuttingDown, rustClient, attempts, listeners, calls,
          reader, duration, iteration, stream, localTime, policy>>

\* What the client does not touch: the values under study in the other
\* specifications of this module.
others == <<reader, duration, iteration, stream, localTime, policy>>

\* A value that is not under study in a specification.
Unused == [use |-> FALSE]

\* No page request in flight.
NoReq == [ps |-> 0, seen |-> 0]

(***************************************************************************)
(* A call that has not been made yet.  kind and pc: which function and     *)
(* where it stands.  connRes: what its awaited promise of #connect settled *)
(* with; joined / started: the connect attempt it waits for / it made.     *)
(* cb, out, early: how often its completion was settled, with what, and    *)
(* whether that was before the call returned.  sent: a request of this     *)
(* call was passed to the backend session.  at: the client as the call     *)
(* found it, atFailed: the last connect attempt had failed then, inFlight: *)
(* the connect attempt that was in flight then (0: none).  cut: a          *)
(* shutdown found a request of this call pending.                          *)
(* prep, todo, cur, cache: isPrepared(), the number of batch elements      *)
(* still to read, the statement being prepared and the statements its      *)
(* PreparedCache holds.  The rest are the closure variables of eachRow     *)
(* (auto, ps, rowLength), the rows handed to rowCallback                   *)
(* (delivered), the pages received (served), the page request in flight    *)
(* (req), the number of page requests made (reqs) and the result handed to *)
(* the completion (resLen, more).                                          *)
(***************************************************************************)
NewCall ==
    [kind |-> "none", pc |-> "new", connRes |-> None, joined |-> 0, started |-> 0,
     cb |-> 0, out |-> None, early |-> FALSE, sent |-> FALSE, at |-> "none",
     atFailed |-> FALSE, inFlight |-> 0, cut |-> FALSE,
     prep |-> FALSE, todo |-> 0, cur |-> "", cache |-> {},
     auto |-> FALSE, ps |-> 0, rowLength |-> 0, delivered |-> <<>>, served |-> <<>>,
     req |-> NoReq, reqs |-> 0, resLen |-> 0, more |-> FALSE]

\* Calls are numbered in the order the application makes them.
CanIssue(c) ==
    /\ calls[c].kind = "none"
    /\ \A d \in Calls : d < c => calls[d].kind # "none"

\* Some shutdown() call has completed.
ShutdownCompleted ==
    \E s \in Calls : calls[s].kind = "shutdown" /\ calls[s].pc = "done"

\* The last connect attempt has failed (and no other was made since).
LastFailed == attempts # <<>> /\ IsError(attempts[Len(attempts)])

\* The record of call c as it is issued: its kind, and what the client looked like.
Issued(c, k) ==
    [calls[c] EXCEPT !.kind = k, !.atFailed = LastFailed,
                     !.inFlight = IF connecting THEN Len(attempts) ELSE 0,
                     !.at = IF isShuttingDown THEN "shuttingDown"
                            ELSE IF ShutdownCompleted THEN "afterShutdown"
                            ELSE "open"]

\* The completion (callback or promise) of a call is settled with outcome o,
\* after the call has returned (promiseUtils.optionalCallback / toCallback).
Settle(r, o) ==
    [r EXCEPT !.pc = "done", !.cb = @ + 1, !.out = o,
              !.prep = FALSE, !.todo = 0, !.cur = "", !.cache = {}, !.req = NoReq]

\* The completion callback is invoked by the call itself, before it returns.
SettleSync(r, o) == [Settle(r, o) EXCEPT !.early = TRUE]

(***************************************************************************)
(* promiseUtils.fromEvent(this, "connected"): a once-listener that settles *)
(* the promise with what the event carries.                                *)
(***************************************************************************)
fromEvent(c) == listeners \cup {c}

(***************************************************************************)
(* The promise of #connect that call r awaits is settled with o.  What     *)
(* follows in connect() only hands o to the caller, so its completion is   *)
(* settled in the same step; every other caller goes on in Resume.         *)
(***************************************************************************)
connectSettled(r, o) ==
    IF r.kind = "connect" THEN Settle([r EXCEPT !.connRes = o], o)
    ELSE [r EXCEPT !.pc = "resume", !.connRes = o]

\* #connect without `if (this.connecting) return fromEvent(...)`.
connectBodyNoShare(c, r) ==
    LET r0 == [r EXCEPT !.joined = 0, !.started = 0] IN
    IF connected THEN
        /\ calls' = [calls EXCEPT ![c] = connectSettled(r0, Ok)]
        /\ UNCHANGED <<connecting, attempts, listeners>>
    ELSE IF isShuttingDown THEN
        /\ calls' = [calls EXCEPT ![c] = connectSettled(r0, NoHostAvailableError)]
        /\ UNCHANGED <<connecting, attempts, listeners>>
    ELSE
        /\ connecting' = TRUE
        /\ attempts' = Append(attempts, None)
        /\ calls' = [calls EXCEPT ![c] =
                        [r0 EXCEPT !.pc = "creating", !.started = Len(attempts) + 1]]
        /\ UNCHANGED listeners

(***************************************************************************)
(* Client.#connect, up to its await: r is the caller's record; joined and  *)
(* started tell of this run of #connect.                                   *)
(***************************************************************************)
connectBody(c, r) ==
    LET r0 == [r EXCEPT !.joined = 0, !.started = 0] IN
    IF connected THEN
        /\ calls' = [calls EXCEPT ![c] = connectSettled(r0, Ok)]
        /\ UNCHANGED <<connecting, attempts, listeners>>
    ELSE IF isShuttingDown THEN
        /\ calls' = [calls EXCEPT ![c] = connectSettled(r0, NoHostAvailableError)]
        /\ UNCHANGED <<connecting, attempts, listeners>>
    ELSE IF connecting THEN
        /\ listeners' = fromEvent(c)
        /\ calls' = [calls EXCEPT ![c] =
                        [r0 EXCEPT !.pc = "waiting", !.joined = Len(attempts)]]
        /\ UNCHANGED <<connecting, attempts>>
    ELSE
        /\ connecting' = TRUE
        /\ attempts' = Append(attempts, None)
        /\ calls' = [calls EXCEPT ![c] =
                        [r0 EXCEPT !.pc = "creating", !.started = Len(attempts) + 1]]
        /\ UNCHANGED listeners

\* Client.connect(): the application asks for a connection.
Connect(c) ==
    /\ CanIssue(c)
    /\ connectBody(c, Issued(c, "connect"))
    /\ UNCHANGED <<connected, isShuttingDown, rustClient>>

(***************************************************************************)
(* emit("connected", err): every listener's promise is settled with the    *)
(* outcome o and the listeners are removed; d is the call whose #connect   *)
(* made the attempt and returns (or throws) right after.                   *)
(***************************************************************************)
emitConnected(d, o) ==
    /\ calls' = [c \in Calls |->
                    IF c = d \/ c \in listeners
                    THEN connectSettled(calls[c], o)
                    ELSE calls[c]]
    /\ listeners' = {}

\* The rest of #connect without `this.connecting = false`.
CreateSessionOkStaysConnecting(d) ==
    /\ calls[d].pc = "creating"
    /\ rustClient' = calls[d].started
    /\ connected' = TRUE
    /\ attempts' = [attempts EXCEPT ![calls[d].started] = Ok]
    /\ emitConnected(d, Ok)
    /\ UNCHANGED <<connecting, isShuttingDown>>

\* rust.SessionWrapper.createSession resolves: the rest of #connect.
CreateSessionOk(d) ==
    /\ calls[d].pc = "creating"
    /\ rustClient' = calls[d].started
    /\ connected' = TRUE
    /\ connecting' = FALSE
    /\ attempts' = [attempts EXCEPT ![calls[d].started] = Ok]
    /\ emitConnected(d, Ok)
    /\ UNCHANGED isShuttingDown

\* The catch block of #connect without `this.connecting = false`.
CreateSessionFailStaysConnecting(d) ==
    /\ calls[d].pc = "creating"
    /\ connected' = FALSE
    /\ attempts' = [attempts EXCEPT ![calls[d].started] = ConnectError(calls[d].started)]
    /\ emitConnected(d, ConnectError(calls[d].started))
    /\ UNCHANGED <<connecting, isShuttingDown, rustClient>>

\* rust.SessionWrapper.createSession rejects: the catch block of #connect.
CreateSessionFail(d) ==
    /\ calls[d].pc = "creating"
    /\ connected' = FALSE
    /\ connecting' = FALSE
    /\ attempts' = [attempts EXCEPT ![calls[d].started] = ConnectError(calls[d].started)]
    /\ emitConnected(d, ConnectError(calls[d].started))
    /\ UNCHANGED <<isShuttingDown, rustClient>>

(***************************************************************************)
(* Client.#shutdown.  A request is pending when the backend session has it *)
(* and has not answered.                                                   *)
(***************************************************************************)
Pending(r) == r.pc \in {"prepare", "request"}

\* #shutdown without `this.connected = false`.
shutdownFlagsStaysConnected(c, r) ==
    /\ connected' = connected
    /\ isShuttingDown' = TRUE
    /\ calls' = [d \in Calls |->
                    IF d = c THEN Settle(r, Ok)
                    ELSE IF Pending(calls[d]) THEN [calls[d] EXCEPT !.cut = TRUE]
                    ELSE calls[d]]

\* #shutdown that also fails every pending request with a ShuttingDown error.
shutdownFlagsCancels(c, r) ==
    /\ connected' = FALSE
    /\ isShuttingDown' = TRUE
    /\ calls' = [d \in Calls |->
                    IF d = c THEN Settle(r, Ok)
                    ELSE IF Pending(calls[d])
                    THEN Settle([calls[d] EXCEPT !.cut = TRUE], ShuttingDownError)
                    ELSE calls[d]]

\* The last two assignments of #shutdown, made by call c.
shutdownFlags(c, r) ==
    /\ connected' = FALSE
    /\ isShuttingDown' = TRUE
    /\ calls' = [d \in Calls |->
                    IF d = c THEN Settle(r, Ok)
                    ELSE IF Pending(calls[d]) THEN [calls[d] EXCEPT !.cut = TRUE]
                    ELSE calls[d]]

\* Client.shutdown().
Shutdown(c) ==
    /\ CanIssue(c)
    /\ IF ~connected THEN
           \* not initialized
           /\ calls' = [calls EXCEPT ![c] = Settle(Issued(c, "shutdown"), Ok)]
           /\ UNCHANGED <<connected, isShuttingDown, listeners>>
       ELSE IF connecting THEN
           \* wait until finish connecting
           /\ listeners' = fromEvent(c)
           /\ calls' = [calls EXCEPT ![c] = [Issued(c, "shutdown") EXCEPT !.pc = "waiting"]]
           /\ UNCHANGED <<connected, isShuttingDown>>
       ELSE
           /\ shutdownFlags(c, Issued(c, "shutdown"))
           /\ UNCHANGED listeners
    /\ UNCHANGED <<connecting, rustClient, attempts>>

(***************************************************************************)
(* The request paths.  An argument that nothing has read yet is chosen     *)
(* where the code first reads it: whether encodeParams accepts the         *)
(* parameters (encOk), and for batch() the options and the elements of the *)
(* array.                                                                  *)
(***************************************************************************)
Untouched == <<connecting, attempts, listeners>>

\* rustyExecute that goes on to the request after encodeParams has thrown.
executeRequestGoesOn(r, encOk) ==
    IF r.prep THEN [r EXCEPT !.pc = "prepare", !.sent = TRUE]
    ELSE IF ~encOk THEN [Settle(r, ArgumentError) EXCEPT !.pc = "request", !.sent = TRUE]
    ELSE [r EXCEPT !.pc = "request", !.sent = TRUE]

\* Client.rustyExecute / Client.#rustyPaged of execute(), once the client is connected.
executeRequest(r, encOk) ==
    IF r.prep THEN [r EXCEPT !.pc = "prepare", !.sent = TRUE]
    ELSE IF ~encOk THEN Settle(r, ArgumentError)
    ELSE [r EXCEPT !.pc = "request", !.sent = TRUE]

\* execute without `if (!this.connected) await this.#connect()`.
ExecuteNoConnect(c) ==
    /\ CanIssue(c)
    /\ \E optsOk \in BOOLEAN, named \in BOOLEAN, prepared \in BOOLEAN,
          paged \in BOOLEAN, encOk \in BOOLEAN :
         LET r == [Issued(c, "execute") EXCEPT !.prep = prepared] IN
         IF ~optsOk THEN
             /\ calls' = [calls EXCEPT ![c] = SettleSync(r, OptionsError)]
             /\ UNCHANGED Untouched
         ELSE IF named /\ (~paged \/ ~prepared) THEN
             /\ calls' = [calls EXCEPT ![c] = Settle(r, NamedParamsError)]
             /\ UNCHANGED Untouched
         ELSE
             /\ calls' = [calls EXCEPT ![c] = executeRequest(r, encOk)]
             /\ UNCHANGED Untouched
    /\ UNCHANGED <<connected, isShuttingDown, rustClient>>

\* Client.execute(query, params, options, callback).
Execute(c) ==
    /\ CanIssue(c)
    /\ \E optsOk \in BOOLEAN, named \in BOOLEAN, prepared \in BOOLEAN,
          paged \in BOOLEAN, encOk \in BOOLEAN :
         LET r == [Issued(c, "execute") EXCEPT !.prep = prepared] IN
         IF ~optsOk THEN
             \* There was an error when parsing the user options
             /\ calls' = [calls EXCEPT ![c] = SettleSync(r, OptionsError)]
             /\ UNCHANGED Untouched
         ELSE IF named /\ (~paged \/ ~prepared) THEN
             /\ calls' = [calls EXCEPT ![c] = Settle(r, NamedParamsError)]
             /\ UNCHANGED Untouched
         ELSE IF connected THEN
             /\ calls' = [calls EXCEPT ![c] = executeRequest(r, encOk)]
             /\ UNCHANGED Untouched
         ELSE connectBody(c, r)
    /\ UNCHANGED <<connected, isShuttingDown, rustClient>>

\* What an element of the array handed to batch() can be: a query, or
\* something that is no query (empty, or without query text).
BatchElems == {"bad", "q1", "q2"}

\* The statement loop of Client.#rustyBatch, up to its next await; elems are
\* the elements it has not read yet.
RECURSIVE batchLoop(_, _)
batchLoop(r, elems) ==
    IF elems = <<>> THEN [r EXCEPT !.pc = "request", !.sent = TRUE, !.todo = 0]
    ELSE IF Head(elems) = "bad" THEN Settle(r, ArgumentError)
    ELSE IF r.prep /\ Head(elems) \notin r.cache
         THEN [r EXCEPT !.pc = "prepare", !.sent = TRUE,
                        !.cur = Head(elems), !.todo = Len(elems) - 1]
    ELSE batchLoop(r, Tail(elems))

\* Client.#rustyBatch after `await this.#connect()`.
batchAfterConnect(r, optsOk, prepared, elems) ==
    IF ~optsOk THEN Settle(r, OptionsError)
    ELSE batchLoop([r EXCEPT !.prep = prepared], elems)

\* batch without the two checks of the array before `await this.#connect()`.
BatchNoArrayCheck(c) ==
    /\ CanIssue(c)
    /\ \E isArray \in BOOLEAN, n \in 0..MaxBatch :
         connectBody(c, [Issued(c, "batch") EXCEPT !.todo = IF isArray THEN n ELSE 0])
    /\ UNCHANGED <<connected, isShuttingDown, rustClient>>

\* Client.batch(queries, options, callback).
Batch(c) ==
    /\ CanIssue(c)
    /\ \E isArray \in BOOLEAN, n \in 0..MaxBatch :
         LET r == Issued(c, "batch") IN
         IF ~isArray \/ n = 0 THEN
             /\ calls' = [calls EXCEPT ![c] = Settle(r, ArgumentError)]
             /\ UNCHANGED Untouched
         ELSE connectBody(c, [r EXCEPT !.todo = n])
    /\ UNCHANGED <<connected, isShuttingDown, rustClient>>

(***************************************************************************)
(* eachRow.  The server numbers the pages of a result 1, 2, ...; the       *)
(* paging state returned with page p is p, and 0 stands for none.  Row i   *)
(* of page p is <<p, i>>.  A page of n rows has n = -1 when the result     *)
(* has no rows at all (a void result).                                     *)
(***************************************************************************)

\* A ResultSet that counts a result without rows as one row.
ResultSetVoidIsOne(page, n) ==
    LET rows == IF n >= 0 THEN [i \in 1..n |-> <<page, i>>] ELSE <<>> IN
    [hasRows |-> n >= 0, rows |-> rows,
     rowLength |-> IF n >= 0 THEN Len(rows) ELSE 1]

\* The ResultSet constructor: rows and rowLength of a page.
ResultSet(page, n) ==
    LET rows == IF n >= 0 THEN [i \in 1..n |-> <<page, i>>] ELSE <<>> IN
    [hasRows |-> n >= 0, rows |-> rows,
     rowLength |-> IF n >= 0 THEN Len(rows) ELSE 0]

\* Client.#rustyPaged of eachRow, once the client is connected: the page
\* request carries the paging state it was called with.
pageRequest(r, encOk) ==
    IF r.prep THEN [r EXCEPT !.pc = "prepare", !.sent = TRUE]
    ELSE IF ~encOk THEN Settle(r, ArgumentError)
    ELSE [r EXCEPT !.pc = "request", !.sent = TRUE, !.reqs = @ + 1,
                   !.req = [ps |-> r.ps, seen |-> Len(r.delivered)]]

\* nextPage of eachRow: Client.#rustyPaged with the closure's pagingState, up to its await.
nextPage(c, r, encOk) ==
    IF connected THEN
        /\ calls' = [calls EXCEPT ![c] = pageRequest(r, encOk)]
        /\ UNCHANGED Untouched
    ELSE connectBody(c, r)

\* eachRow that hands the error of #rustyPaged to the callback at once.
EachRowSyncError(c) ==
    /\ CanIssue(c)
    /\ Cardinality({d \in Calls : calls[d].kind = "eachRow"}) < MaxEachRow
    /\ \E optsOk \in BOOLEAN, named \in BOOLEAN, prepared \in BOOLEAN,
          autoPage \in BOOLEAN, encOk \in BOOLEAN :
         LET r == [Issued(c, "eachRow") EXCEPT !.prep = prepared, !.auto = autoPage] IN
         IF ~optsOk THEN
             /\ calls' = [calls EXCEPT ![c] =
                             SettleSync(Issued(c, "eachRow"), OptionsError)]
             /\ UNCHANGED Untouched
         ELSE IF named /\ ~prepared THEN
             /\ calls' = [calls EXCEPT ![c] = SettleSync(r, NamedParamsError)]
             /\ UNCHANGED Untouched
         ELSE nextPage(c, r, encOk)
    /\ UNCHANGED <<connected, isShuttingDown, rustClient>>

\* Client.eachRow(query, params, options, rowCallback, callback).
EachRow(c) ==
    /\ CanIssue(c)
    /\ Cardinality({d \in Calls : calls[d].kind = "eachRow"}) < MaxEachRow
    /\ \E optsOk \in BOOLEAN, named \in BOOLEAN, prepared \in BOOLEAN,
          autoPage \in BOOLEAN, encOk \in BOOLEAN :
         LET r == [Issued(c, "eachRow") EXCEPT !.prep = prepared, !.auto = autoPage] IN
         IF ~optsOk THEN
             /\ calls' = [calls EXCEPT ![c] =
                             SettleSync(Issued(c, "eachRow"), OptionsError)]
             /\ UNCHANGED Untouched
         ELSE IF named /\ ~prepared THEN
             /\ calls' = [calls EXCEPT ![c] = Settle(r, NamedParamsError)]
             /\ UNCHANGED Untouched
         ELSE nextPage(c, r, encOk)
    /\ UNCHANGED <<connected, isShuttingDown, rustClient>>

\* The end of pageCallback: the result, with the accumulated rowLength, goes
\* to the completion callback; more tells whether it has a nextPage.
pageDone(r, hasNext) ==
    [r EXCEPT !.cb = @ + 1, !.out = Ok, !.resLen = r.rowLength, !.more = hasNext,
              !.pc = IF hasNext THEN "paged" ELSE "done",
              !.prep = IF hasNext THEN @ ELSE FALSE]

\* pageCallback that hands the rows of a page to rowCallback last row first.
pageCallbackReversed(c, r, n, next, encOk) ==
    LET page == r.req.ps + 1
        queryResult == ResultSet(page, n)
        r1 == [r EXCEPT !.rowLength = @ + queryResult.rowLength,
                        !.delivered = IF queryResult.hasRows
                                      THEN @ \o [i \in 1..Len(queryResult.rows) |->
                                                  queryResult.rows[Len(queryResult.rows) + 1 - i]]
                                      ELSE @,
                        !.served = Append(@, [page |-> page, n |-> n, next |-> next]),
                        !.req = NoReq]
    IN  IF next # 0 THEN
            IF r1.auto THEN nextPage(c, [r1 EXCEPT !.ps = next], encOk)
            ELSE /\ calls' = [calls EXCEPT ![c] = pageDone([r1 EXCEPT !.ps = next], TRUE)]
                 /\ UNCHANGED Untouched
        ELSE /\ calls' = [calls EXCEPT ![c] = pageDone(r1, FALSE)]
             /\ UNCHANGED Untouched

\* pageCallback without `pagingState = lastPagingState`.
pageCallbackStale(c, r, n, next, encOk) ==
    LET page == r.req.ps + 1
        queryResult == ResultSet(page, n)
        r1 == [r EXCEPT !.rowLength = @ + queryResult.rowLength,
                        !.delivered = IF queryResult.hasRows
                                      THEN @ \o queryResult.rows ELSE @,
                        !.served = Append(@, [page |-> page, n |-> n, next |-> next]),
                        !.req = NoReq]
    IN  IF next # 0 THEN
            IF r1.auto THEN nextPage(c, r1, encOk)
            ELSE /\ calls' = [calls EXCEPT ![c] = pageDone([r1 EXCEPT !.ps = next], TRUE)]
                 /\ UNCHANGED Untouched
        ELSE /\ calls' = [calls EXCEPT ![c] = pageDone(r1, FALSE)]
             /\ UNCHANGED Untouched

\* pageCallback with `queryResult.nextPage = nextPage` outside `if (lastPagingState)`.
pageCallbackAlwaysNext(c, r, n, next, encOk) ==
    LET page == r.req.ps + 1
        queryResult == ResultSet(page, n)
        r1 == [r EXCEPT !.rowLength = @ + queryResult.rowLength,
                        !.delivered = IF queryResult.hasRows
                                      THEN @ \o queryResult.rows ELSE @,
                        !.served = Append(@, [page |-> page, n |-> n, next |-> next]),
                        !.req = NoReq]
    IN  IF next # 0 /\ r1.auto THEN nextPage(c, [r1 EXCEPT !.ps = next], encOk)
        ELSE /\ calls' = [calls EXCEPT ![c] =
                            [pageDone([r1 EXCEPT !.ps = next], TRUE) EXCEPT !.pc = "done"]]
             /\ UNCHANGED Untouched

\* pageCallback(null, result): the backend session answers a page request
\* with n rows and the paging state next.
pageCallback(c, r, n, next, encOk) ==
    LET page == r.req.ps + 1
        queryResult == ResultSet(page, n)
        r1 == [r EXCEPT !.rowLength = @ + queryResult.rowLength,
                        !.delivered = IF queryResult.hasRows
                                      THEN @ \o queryResult.rows ELSE @,
                        !.served = Append(@, [page |-> page, n |-> n, next |-> next]),
                        !.req = NoReq]
    IN  IF next # 0 THEN
            IF r1.auto THEN nextPage(c, [r1 EXCEPT !.ps = next], encOk)
            ELSE /\ calls' = [calls EXCEPT ![c] = pageDone([r1 EXCEPT !.ps = next], TRUE)]
                 /\ UNCHANGED Untouched
        ELSE /\ calls' = [calls EXCEPT ![c] = pageDone(r1, FALSE)]
             /\ UNCHANGED Untouched

PageOk(c) ==
    /\ calls[c].kind = "eachRow"
    /\ calls[c].pc = "request"
    /\ \E n \in -1..MaxRows, more \in BOOLEAN, encOk \in BOOLEAN :
         /\ more => calls[c].req.ps + 1 < MaxPages
         /\ pageCallback(c, calls[c], n, IF more THEN calls[c].req.ps + 1 ELSE 0, encOk)
    /\ UNCHANGED <<connected, isShuttingDown, rustClient>>

\* pageCallback(err) that asks for the page again after callback(err).
PageFailAsksAgain(c) ==
    /\ calls[c].kind = "eachRow"
    /\ calls[c].pc = "request"
    /\ calls' = [calls EXCEPT ![c] = pageRequest(Settle(calls[c], ResponseError), TRUE)]
    /\ UNCHANGED <<connected, connecting, isShuttingDown, rustClient, attempts, listeners>>

\* pageCallback(err): the backend session answers a page request with an error.
PageFail(c) ==
    /\ calls[c].kind = "eachRow"
    /\ calls[c].pc = "request"
    /\ calls' = [calls EXCEPT ![c] = Settle(calls[c], ResponseError)]
    /\ UNCHANGED <<connected, connecting, isShuttingDown, rustClient, attempts, listeners>>

\* The application calls result.nextPage() of a page that has one (no autoPage).
NextPage(c) ==
    /\ calls[c].pc = "paged"
    /\ \E encOk \in BOOLEAN : nextPage(c, [calls[c] EXCEPT !.more = FALSE], encOk)
    /\ UNCHANGED <<connected, isShuttingDown, rustClient>>

(***************************************************************************)
(* The continuation of a call whose awaited promise of #connect (or of     *)
(* fromEvent, in #shutdown) has been settled.                              *)
(***************************************************************************)
Resume(c) ==
    /\ calls[c].pc = "resume"
    /\ LET r == calls[c] IN
       IF r.kind = "shutdown" THEN
           IF r.connRes = Ok THEN shutdownFlags(c, r)
           ELSE
               /\ calls' = [calls EXCEPT ![c] = Settle(r, r.connRes)]
               /\ UNCHANGED <<connected, isShuttingDown>>
       ELSE
           /\ UNCHANGED <<connected, isShuttingDown>>
           /\ IF IsError(r.connRes) THEN
                  calls' = [calls EXCEPT ![c] = Settle(r, r.connRes)]
              ELSE IF r.kind = "execute" THEN
                  \E encOk \in BOOLEAN :
                      calls' = [calls EXCEPT ![c] =
                                   executeRequest(r, encOk)]
              ELSE IF r.kind = "eachRow" THEN
                  \E encOk \in BOOLEAN :
                      calls' = [calls EXCEPT ![c] =
                                   pageRequest(r, encOk)]
              ELSE
                  \E optsOk \in BOOLEAN, prepared \in BOOLEAN,
                     elems \in [1..r.todo -> BatchElems] :
                      calls' = [calls EXCEPT ![c] =
                                   batchAfterConnect(r, optsOk, prepared, elems)]
    /\ UNCHANGED <<connecting, rustClient, attempts, listeners>>

\* this.rustClient.prepareStatement resolves: the code after `await this.prepareQuery(...)`.
PrepareOk(c) ==
    /\ calls[c].pc = "prepare"
    /\ LET r == calls[c] IN
       IF r.kind = "batch" THEN
           \E elems \in [1..r.todo -> BatchElems] :
               calls' = [calls EXCEPT ![c] =
                            batchLoop([r EXCEPT !.cache = @ \cup {r.cur}, !.cur = ""], elems)]
       ELSE
           \E encOk \in BOOLEAN :
               calls' = [calls EXCEPT ![c] =
                            IF ~encOk THEN Settle(r, ArgumentError)
                            ELSE IF r.kind = "eachRow"
                            THEN [r EXCEPT !.pc = "request", !.reqs = @ + 1,
                                           !.req = [ps |-> r.ps, seen |-> Len(r.delivered)]]
                            ELSE [r EXCEPT !.pc = "request"]]
    /\ UNCHANGED <<connected, connecting, isShuttingDown, rustClient, attempts, listeners>>

\* this.rustClient.prepareStatement rejects.
PrepareFail(c) ==
    /\ calls[c].pc = "prepare"
    /\ calls' = [calls EXCEPT ![c] = Settle(calls[c], ResponseError)]
    /\ UNCHANGED <<connected, connecting, isShuttingDown, rustClient, attempts, listeners>>

\* The backend session answers the request of execute() or batch() with a result.
RequestOk(c) ==
    /\ calls[c].kind \in {"execute", "batch"}
    /\ calls[c].pc = "request"
    /\ calls' = [calls EXCEPT ![c] = Settle(calls[c], Ok)]
    /\ UNCHANGED <<connected, connecting, isShuttingDown, rustClient, attempts, listeners>>

\* The backend session answers the request of execute() or batch() with an error.
RequestFail(c) ==
    /\ calls[c].kind \in {"execute", "batch"}
    /\ calls[c].pc = "request"
    /\ calls' = [calls EXCEPT ![c] = Settle(calls[c], ResponseError)]
    /\ UNCHANGED <<connected, connecting, isShuttingDown, rustClient, attempts, listeners>>

Init ==
    /\ connected = FALSE
    /\ connecting = FALSE
    /\ isShuttingDown = FALSE
    /\ rustClient = 0
    /\ attempts = <<>>
    /\ listeners = {}
    /\ calls = [c \in Calls |-> NewCall]
    /\ reader = Unused
    /\ duration = Unused
    /\ iteration = Unused
    /\ stream = Unused
    /\ localTime = Unused
    /\ policy = Unused

Next ==
    \/ \E c \in Calls : Connect(c) /\ UNCHANGED others
    \/ \E c \in Calls : CreateSessionOk(c) /\ UNCHANGED others
    \/ \E c \in Calls : CreateSessionFail(c) /\ UNCHANGED others
    \/ \E c \in Calls : Shutdown(c) /\ UNCHANGED others
    \/ \E c \in Calls : Execute(c) /\ UNCHANGED others
    \/ \E c \in Calls : Batch(c) /\ UNCHANGED others
    \/ \E c \in Calls : EachRow(c) /\ UNCHANGED others
    \/ \E c \in Calls : NextPage(c) /\ UNCHANGED others
    \/ \E c \in Calls : Resume(c) /\ UNCHANGED others
    \/ \E c \in Calls : PrepareOk(c) /\ UNCHANGED others
    \/ \E c \in Calls : PrepareFail(c) /\ UNCHANGED others
    \/ \E c \in Calls : RequestOk(c) /\ UNCHANGED others
    \/ \E c \in Calls : RequestFail(c) /\ UNCHANGED others
    \/ \E c \in Calls : PageOk(c) /\ UNCHANGED others
    \/ \E c \in Calls : PageFail(c) /\ UNCHANGED others

Spec == Init /\ [][Next]_vars

(***************************************************************************)
(* Properties.                                                             *)
(***************************************************************************)
Queries == {"execute", "batch", "eachRow"}

\* The createSession calls that have not been answered.
InFlightAttempts == {a \in 1..Len(attempts) : attempts[a] = None}

\* C1: while a connect attempt is in flight no further call starts a session
\* creation (at most one createSession is unanswered, and a call that found
\* an attempt in flight made none), and every such call's promise of #connect
\* is settled with the outcome of that attempt (pending while it is pending),
\* which is what connect() hands to its caller and what a query fails with.
C1_ConnectShared ==
    /\ Cardinality(InFlightAttempts) <= 1
    /\ \A c \in Calls :
         calls[c].joined # 0 =>
            /\ calls[c].started = 0
            /\ calls[c].connRes = attempts[calls[c].joined]
            /\ (calls[c].kind = "connect" /\ calls[c].pc = "done"
                    => calls[c].out = attempts[calls[c].joined])
            /\ (IsError(calls[c].connRes) /\ calls[c].pc = "done"
                    => calls[c].out = attempts[calls[c].joined])

\* Two calls shared one attempt that failed and both got its error, one of
\* them a query.
C1_Witness ==
    \E c, d \in Calls :
        /\ c # d
        /\ calls[c].joined = 1 /\ calls[d].joined = 1
        /\ calls[c].kind = "connect" /\ calls[d].kind = "execute"
        /\ calls[c].pc = "done" /\ calls[d].pc = "done"
        /\ calls[c].out = ConnectError(1) /\ calls[d].out = ConnectError(1)

\* C2: after a connect attempt has failed the client is not connected, not
\* connecting and not shutting down, and a connect() made then starts an
\* attempt of its own and is settled with the outcome of that attempt.
C2_RetryAfterFailure ==
    /\ LastFailed => ~connected /\ ~connecting /\ ~isShuttingDown
    /\ \A c \in Calls :
         calls[c].kind = "connect" /\ calls[c].atFailed =>
            /\ calls[c].started > 1
            /\ calls[c].joined = 0
            /\ calls[c].connRes = attempts[calls[c].started]
            /\ (calls[c].pc = "done" => calls[c].out = attempts[calls[c].started])

\* A connect() made after a failed attempt made the second attempt and succeeded.
C2_Witness ==
    \E c \in Calls :
        /\ calls[c].kind = "connect" /\ calls[c].atFailed
        /\ calls[c].started = 2
        /\ IsError(attempts[1])
        /\ calls[c].pc = "done" /\ calls[c].out = Ok

\* C3: a connect() made when the client is shutting down fails with
\* NoHostAvailableError and neither starts nor joins a session creation.
C3_ConnectAfterShutdown ==
    \A c \in Calls :
        calls[c].kind = "connect" /\ calls[c].at = "shuttingDown" =>
            /\ calls[c].pc = "done"
            /\ calls[c].out = NoHostAvailableError
            /\ calls[c].started = 0
            /\ calls[c].joined = 0

C3_Witness ==
    \E c \in Calls :
        /\ calls[c].kind = "connect" /\ calls[c].at = "shuttingDown"
        /\ calls[c].out = NoHostAvailableError

\* C4: a query made after a shutdown() has completed is rejected and no
\* request of it is passed to the backend session.
C4_RejectedAfterShutdown ==
    \A c \in Calls :
        calls[c].kind \in Queries /\ calls[c].at \in {"afterShutdown", "shuttingDown"} =>
            /\ ~calls[c].sent
            /\ (calls[c].pc = "done" => IsError(calls[c].out))

\* C5 as stated: a request that was pending when shutdown was called
\* completes with a ShuttingDown error.
C5_PendingCancelled ==
    \A c \in Calls :
        calls[c].cut /\ calls[c].pc = "done" => calls[c].out = ShuttingDownError

\* C5, amended: shutdown cancels no pending request.  A call of execute or
\* batch that had a request pending completes with what the backend answers
\* or with the error of a later step of its own; an eachRow can also fail
\* with NoHostAvailableError, when it needs the next page.  None completes
\* with a ShuttingDown error.
C5_PendingNotCancelled ==
    \A c \in Calls :
        /\ calls[c].out # ShuttingDownError
        /\ (calls[c].cut /\ ~Pending(calls[c]) =>
                \/ calls[c].pc = "done" /\ calls[c].kind \in {"execute", "batch"}
                      /\ calls[c].out \in {Ok, ResponseError, ArgumentError}
                \/ calls[c].kind = "eachRow")
        /\ (calls[c].cut /\ calls[c].kind = "eachRow" /\ calls[c].cb > 0 =>
                calls[c].out \in {Ok, ResponseError, ArgumentError, NoHostAvailableError})

\* A request that was pending when shutdown was called delivered a result.
C5_Witness ==
    \E c \in Calls :
        /\ calls[c].kind = "execute" /\ calls[c].cut
        /\ calls[c].pc = "done" /\ calls[c].out = Ok
        /\ isShuttingDown

\* C26: when shutdown() was called while a connect attempt was in flight and
\* both have finished, the client is not connected, and a query made after
\* both have finished is rejected without a request to the backend session.
C26_ShutdownWhileConnecting ==
    \A s \in Calls :
        /\ calls[s].kind = "shutdown" /\ calls[s].inFlight # 0
        /\ calls[s].pc = "done" /\ attempts[calls[s].inFlight] # None
        => /\ ~connected
           /\ \A q \in Calls :
                 q > s /\ calls[q].kind \in Queries /\ calls[q].inFlight = 0 =>
                     /\ ~calls[q].sent
                     /\ (calls[q].pc = "done" => IsError(calls[q].out))

\* C28: the client is never connecting and connected at once, and never
\* connected while it is shutting down.
C28_FlagsExclusive ==
    /\ ~(connecting /\ connected)
    /\ ~(connected /\ isShuttingDown)

\* The client was connected and is shut down, with a request of a query
\* still at the backend session.
C28_Witness ==
    /\ isShuttingDown /\ ~connected /\ ~connecting /\ rustClient # 0
    /\ \E c \in Calls : calls[c].kind \in Queries /\ calls[c].cut

\* C27: once the completion callback of an eachRow call with autoPage has
\* been invoked with an error, no step makes a further page request for
\* that call or hands a further row to its rowCallback.
C27_NothingAfterError ==
    [][\A c \in Calls :
          /\ calls[c].kind = "eachRow" /\ calls[c].auto
          /\ calls[c].cb > 0 /\ IsError(calls[c].out)
          => /\ calls'[c].reqs = calls[c].reqs
             /\ calls'[c].delivered = calls[c].delivered
             /\ calls'[c].pc = "done" /\ calls'[c].req = NoReq]_vars

\* An eachRow call with autoPage has handed the rows of a page to rowCallback,
\* has asked for the next page and was failed, and another call was made since.
C27_Witness ==
    \E c \in Calls :
        /\ calls[c].kind = "eachRow" /\ calls[c].auto
        /\ calls[c].cb = 1 /\ IsError(calls[c].out)
        /\ calls[c].delivered # <<>> /\ calls[c].reqs > 1
        /\ \E d \in Calls : d > c /\ calls[d].kind # "none"

\* A call has a step of its own still to come: an answer of the backend, or
\* the continuation of a settled promise.
InProgress(c) ==
    \/ calls[c].pc \in {"creating", "resume", "prepare", "request"}
    \/ /\ calls[c].pc = "waiting"
       /\ c \in listeners
       /\ \E d \in Calls : calls[d].pc = "creating"

\* C6: the completion of a call of execute, batch or auto-paged eachRow is
\* settled at most once; when it has been, the call is over and the outcome
\* is a result or an error; and as long as it has not been, a step of the
\* call is still to come, so that no completion is lost.
C6_SettledOnce ==
    \A c \in Calls :
        calls[c].kind \in {"execute", "batch"}
            \/ (calls[c].kind = "eachRow" /\ calls[c].auto) =>
            \/ calls[c].cb = 1 /\ calls[c].pc = "done" /\ calls[c].out # None
            \/ calls[c].cb = 0 /\ calls[c].out = None /\ InProgress(c)

\* One call of each kind has been settled, with a result and with errors.
C6_Witness ==
    \E c, d, e \in Calls :
        /\ calls[c].kind = "execute" /\ calls[c].cb = 1 /\ calls[c].out = ResponseError
        /\ calls[d].kind = "batch" /\ calls[d].cb = 1 /\ calls[d].out = Ok
        /\ calls[e].kind = "eachRow" /\ calls[e].auto /\ calls[e].cb = 1
        /\ calls[e].out = Ok /\ Len(calls[e].served) = 2

\* The rows of the pages received, page after page.
RECURSIVE RowsOf(_)
RowsOf(served) ==
    IF served = <<>> THEN <<>>
    ELSE RowsOf(SubSeq(served, 1, Len(served) - 1))
            \o [i \in 1..served[Len(served)].n |-> <<served[Len(served)].page, i>>]

\* Row x comes before row y in the result as the server pages it.
Before(x, y) == x[1] < y[1] \/ (x[1] = y[1] /\ x[2] < y[2])

\* C7: in auto-page mode rowCallback has received exactly the rows of the
\* pages received so far, in the order of the server: rows of a page in page
\* order, and every row of a page before any row of a later page.
C7_RowsInOrder ==
    \A c \in Calls :
        calls[c].kind = "eachRow" /\ calls[c].auto =>
            /\ calls[c].delivered = RowsOf(calls[c].served)
            /\ \A i, j \in 1..Len(calls[c].delivered) :
                  i < j => Before(calls[c].delivered[i], calls[c].delivered[j])

\* Two pages of two rows each were delivered.
C7_Witness ==
    \E c \in Calls :
        /\ calls[c].kind = "eachRow" /\ calls[c].auto
        /\ calls[c].delivered = <<<<1, 1>>, <<1, 2>>, <<2, 1>>, <<2, 2>>>>

\* The paging state returned with the last page received (0: none yet).
LastState(served) == IF served = <<>> THEN 0 ELSE served[Len(served)].next

\* C8: in auto-page mode the page requests made exceed the pages received by
\* one at most, and a request in flight carries the paging state returned
\* with the last page received and was made when all rows of the pages
\* received had been delivered.
C8_PagesSerial ==
    \A c \in Calls :
        calls[c].kind = "eachRow" /\ calls[c].auto =>
            /\ calls[c].reqs - Len(calls[c].served) \in {0, 1}
            /\ (calls[c].pc = "request" =>
                    /\ calls[c].reqs = Len(calls[c].served) + 1
                    /\ calls[c].req.ps = LastState(calls[c].served)
                    /\ calls[c].req.seen = Len(RowsOf(calls[c].served)))
            /\ (calls[c].pc # "request" /\ calls[c].out # ResponseError =>
                    calls[c].reqs = Len(calls[c].served))

\* The request for the second page is in flight, with the state of the first.
C8_Witness ==
    \E c \in Calls :
        /\ calls[c].kind = "eachRow" /\ calls[c].auto
        /\ calls[c].pc = "request"
        /\ Len(calls[c].served) = 1 /\ calls[c].served[1].n = 2
        /\ calls[c].req = [ps |-> 1, seen |-> 2]

\* C9: when an auto-paged eachRow completes with a result, the rowLength of
\* that result is the number of rows of all pages received, which is the
\* number of times rowCallback was invoked.
C9_RowLength ==
    \A c \in Calls :
        calls[c].kind = "eachRow" /\ calls[c].auto
            /\ calls[c].pc = "done" /\ calls[c].out = Ok =>
            /\ calls[c].resLen = Len(RowsOf(calls[c].served))
            /\ calls[c].resLen = Len(calls[c].delivered)

\* A result of two pages, one of them without rows, completed with rowLength 2.
C9_Witness ==
    \E c \in Calls :
        /\ calls[c].kind = "eachRow" /\ calls[c].auto
        /\ calls[c].pc = "done" /\ calls[c].out = Ok
        /\ Len(calls[c].served) = 2
        /\ calls[c].served[1].n = 2 /\ calls[c].served[2].n = -1
        /\ calls[c].resLen = 2

\* C10 as stated: eachRow never invokes its completion callback before it
\* has returned.
C10_NeverEarly ==
    \A c \in Calls : calls[c].kind = "eachRow" => ~calls[c].early

\* C10, amended: eachRow invokes its completion callback before it returns
\* exactly when the query options are rejected, and then with that error and
\* nothing else done; on every other path the completion comes after the
\* return.
C10_EarlyOnlyOnOptions ==
    \A c \in Calls :
        calls[c].kind = "eachRow" =>
            /\ calls[c].early <=> calls[c].out = OptionsError
            /\ (calls[c].early =>
                    /\ calls[c].cb = 1 /\ calls[c].pc = "done"
                    /\ ~calls[c].sent
                    /\ calls[c].started = 0 /\ calls[c].joined = 0)

\* An eachRow was completed before it returned, another path after.
C10_Witness ==
    \E c \in Calls :
        /\ calls[c].kind = "eachRow" /\ calls[c].early
        /\ calls[c].out = OptionsError

AttemptOf(c) == IF calls[c].started # 0 THEN calls[c].started ELSE calls[c].joined

\* C16: a request of a query is passed to the backend session only when a
\* connect has succeeded (the session exists and its attempt succeeded), and
\* a query whose connect fails passes nothing to the backend for it and fails
\* with the error of that connect attempt.
C16_ConnectsFirst ==
    \A c \in Calls :
        calls[c].kind \in Queries =>
            /\ (calls[c].sent =>
                    rustClient # 0 /\ attempts[rustClient] = Ok)
            /\ (Pending(calls[c]) => calls[c].connRes \in {None, Ok})
            /\ (AttemptOf(c) # 0 /\ IsError(attempts[AttemptOf(c)]) =>
                    /\ calls[c].connRes = attempts[AttemptOf(c)]
                    /\ calls[c].pc \in {"resume", "done"}
                    /\ (calls[c].pc = "done" => calls[c].out = attempts[AttemptOf(c)])
                    /\ (calls[c].reqs = 0 => ~calls[c].sent))

\* One query started a connect that failed and got its error; another then
\* started the connect that succeeded and its request went to the backend.
C16_Witness ==
    \E c, d \in Calls :
        /\ calls[c].kind = "execute" /\ calls[c].started = 1
        /\ calls[c].pc = "done" /\ calls[c].out = ConnectError(1) /\ ~calls[c].sent
        /\ calls[d].kind \in Queries /\ calls[d].started = 2
        /\ calls[d].sent /\ calls[d].pc = "request"

\* C17 as stated: a batch that fails with ArgumentError has made no connect
\* attempt, joined none, and passed nothing to the backend session.
C17_ArgumentErrorBeforeConnect ==
    \A c \in Calls :
        calls[c].kind = "batch" /\ calls[c].out = ArgumentError =>
            /\ calls[c].started = 0 /\ calls[c].joined = 0
            /\ ~calls[c].sent

\* C17, amended: only a non-empty array gets to the connect of batch; a batch
\* that fails with ArgumentError either failed before any connect attempt
\* and backend call (not an array, or empty), or failed on an element after
\* its connect had succeeded.
C17_ArgumentErrorArrayFirst ==
    \A c \in Calls :
        calls[c].kind = "batch" =>
            /\ (calls[c].pc \in {"creating", "waiting", "resume"} => calls[c].todo >= 1)
            /\ (calls[c].out = ArgumentError =>
                    /\ calls[c].pc = "done"
                    /\ calls[c].connRes \in {None, Ok}
                    /\ (calls[c].connRes = None =>
                            /\ calls[c].started = 0 /\ calls[c].joined = 0
                            /\ ~calls[c].sent)
                    /\ (calls[c].sent => rustClient # 0))

\* A batch made the connect attempt, prepared a statement and then failed
\* with ArgumentError on a later element.
C17_Witness ==
    \E c \in Calls :
        /\ calls[c].kind = "batch" /\ calls[c].out = ArgumentError
        /\ calls[c].started = 1 /\ calls[c].connRes = Ok
        /\ calls[c].sent

(***************************************************************************)
(* FrameReader (lib/reader.js): a forward reader of a Buffer.  A Buffer is *)
(* a sequence of bytes; index i of the Buffer is element i + 1 of the      *)
(* sequence.  reader.last tells what the last operation was asked, where   *)
(* the cursor stood, and what it returned or threw.                        *)
(***************************************************************************)

\* Longest Buffer handed to a FrameReader.
MaxBuf == 6

\* The byte values the Buffers are made of.
Bytes == {0, 2, 255}

Buffers == UNION {[1..n -> Bytes] : n \in 0..MaxBuf}

Min(a, b) == IF a < b THEN a ELSE b

\* An optional argument: not given (undefined), or the number n.
Undefined == [given |-> FALSE, n |-> 0]
Given(n) == [given |-> TRUE, n |-> n]

\* What an operation returns or throws.
Bytes_(b) == [kind |-> "bytes", bytes |-> b, n |-> 0]
Int_(n) == [kind |-> "int", bytes |-> <<>>, n |-> n]
Null_ == [kind |-> "null", bytes |-> <<>>, n |-> 0]
RangeError(expectedLength) == [kind |-> "RangeError", bytes |-> <<>>, n |-> expectedLength]

\* Buffer.prototype.slice(begin, end), for 0 <= begin: indexes past the end are clamped.
BufferSlice(buf, begin, end) == SubSeq(buf, Min(begin, Len(buf)) + 1, Min(end, Len(buf)))

\* Buffer.prototype.readInt32BE(offset): big-endian, two's complement.
readInt32BE(buf, offset) ==
    LET b0 == buf[offset + 1]
        hi == IF b0 >= 128 THEN b0 - 256 ELSE b0
    IN  hi * 16777216 + buf[offset + 2] * 65536 + buf[offset + 3] * 256 + buf[offset + 4]

\* FrameReader.slice(begin, end).
slice(f, begin, end) ==
    BufferSlice(f.buf, begin, IF end.given THEN end.n ELSE Len(f.buf))

\* FrameReader.read(length): the reader after it, ret what it returned.
read(f, length) ==
    LET end == IF length.given /\ f.offset + length.n < Len(f.buf)
               THEN f.offset + length.n
               ELSE Len(f.buf)
    IN  [f EXCEPT !.offset = end, !.ret = Bytes_(slice(f, f.offset, Given(end)))]

\* checkOffset with `>=` for `>`.
checkOffsetStrict(f, newLength) == f.offset + newLength >= Len(f.buf)

\* FrameReader.checkOffset(newLength): TRUE when it throws.
checkOffset(f, newLength) == f.offset + newLength > Len(f.buf)

\* readInt without `this.offset += 4`.
readIntStays(f) ==
    IF checkOffset(f, 4) THEN [f EXCEPT !.ret = RangeError(4)]
    ELSE [f EXCEPT !.ret = Int_(readInt32BE(f.buf, f.offset))]

\* FrameReader.readInt().
readInt(f) ==
    IF checkOffset(f, 4) THEN [f EXCEPT !.ret = RangeError(4)]
    ELSE [f EXCEPT !.offset = @ + 4, !.ret = Int_(readInt32BE(f.buf, f.offset))]

\* FrameReader.readBytes().
readBytes(f) ==
    LET g == readInt(f)
        length == g.ret.n
    IN  IF g.ret.kind = "RangeError" THEN g
        ELSE IF length < 0 THEN [g EXCEPT !.ret = Null_]
        ELSE IF checkOffset(g, length) THEN [g EXCEPT !.ret = RangeError(length)]
        ELSE read(g, Given(length))

\* No operation yet.
NoOp == [op |-> "none", length |-> Undefined, from |-> 0]

\* new FrameReader(body).
FrameReader(body) == [buf |-> body, offset |-> 0, ret |-> Null_, last |-> NoOp]

ReaderInit ==
    /\ reader \in {FrameReader(body) : body \in Buffers}
    /\ connected = FALSE /\ connecting = FALSE /\ isShuttingDown = FALSE
    /\ rustClient = 0 /\ attempts = <<>> /\ listeners = {}
    /\ calls = <<>>
    /\ duration = Unused /\ iteration = Unused /\ stream = Unused
    /\ localTime = Unused /\ policy = Unused

notReader == <<connected, connecting, isShuttingDown, rustClient, attempts, listeners,
               calls, duration, iteration, stream, localTime, policy>>

\* The application calls reader.read(length) or reader.read().
Read ==
    /\ \E length \in {Undefined} \cup {Given(n) : n \in 0..MaxBuf + 1} :
         reader' = [read(reader, length) EXCEPT
                        !.last = [op |-> "read", length |-> length, from |-> reader.offset]]
    /\ UNCHANGED notReader

\* The application calls reader.readInt().
ReadInt ==
    /\ reader' = [readInt(reader) EXCEPT
                     !.last = [op |-> "readInt", length |-> Given(4), from |-> reader.offset]]
    /\ UNCHANGED notReader

\* The application calls reader.readBytes().
ReadBytes ==
    /\ reader' = [readBytes(reader) EXCEPT
                     !.last = [op |-> "readBytes", length |-> Undefined, from |-> reader.offset]]
    /\ UNCHANGED notReader

ReaderNext == Read \/ ReadInt \/ ReadBytes

SpecReader == ReaderInit /\ [][ReaderNext]_vars

\* The bytes between the cursor and the end when the last operation began.
Remaining == Len(reader.buf) - reader.last.from

\* The length prefix the last readBytes found at the cursor (4 bytes remained).
Prefix == readInt32BE(reader.buf, reader.last.from)

\* C18 as stated: every read operation that asks for more bytes than remain
\* fails with a RangeError that carries the requested length.
C18_ReadPastEndFails ==
    reader.last.op # "none" =>
        /\ (reader.last.op = "read" /\ reader.last.length.given
                /\ reader.last.length.n > Remaining =>
                    reader.ret = RangeError(reader.last.length.n))
        /\ (reader.last.op \in {"readInt", "readBytes"} /\ 4 > Remaining =>
                reader.ret = RangeError(4))
        /\ (reader.last.op = "readBytes" /\ 4 <= Remaining
                /\ Prefix >= 0 /\ Prefix > Remaining - 4 =>
                    reader.ret = RangeError(Prefix))

\* C18, amended: readInt and readBytes fail with a RangeError exactly when
\* they ask for more bytes than remain, and the error carries the length
\* asked for: 4 for the integer (the cursor stays), the length prefix for the
\* bytes of readBytes (the cursor has moved past the prefix).  read(length)
\* never fails: asked for more than remain (or for no length) it returns the
\* bytes that remain and leaves the cursor at the end.
C18_RangeErrorOnIntAndBytes ==
    reader.last.op # "none" =>
        /\ (reader.last.op = "read" =>
                /\ reader.ret.kind = "bytes"
                /\ (~reader.last.length.given \/ reader.last.length.n >= Remaining =>
                        /\ reader.ret.bytes =
                               SubSeq(reader.buf, reader.last.from + 1, Len(reader.buf))
                        /\ reader.offset = Len(reader.buf)))
        /\ (reader.last.op \in {"readInt", "readBytes"} =>
                IF 4 > Remaining
                THEN reader.ret = RangeError(4) /\ reader.offset = reader.last.from
                ELSE IF reader.last.op = "readBytes" /\ Prefix >= 0 /\ Prefix > Remaining - 4
                THEN reader.ret = RangeError(Prefix) /\ reader.offset = reader.last.from + 4
                ELSE reader.ret.kind # "RangeError")

\* readBytes found the prefix 2 with one byte after it and failed with
\* expectedLength 2.
C18_Witness ==
    /\ reader.last.op = "readBytes" /\ reader.last.from = 0
    /\ Len(reader.buf) = 5
    /\ reader.ret = RangeError(2)

\* C19: a readBytes that returns has read the 4-byte signed length n at the
\* cursor; when n is negative it returned null and the cursor has advanced by
\* 4, otherwise it returned the n bytes after the length and the cursor has
\* advanced by 4 + n.
C19_ReadBytes ==
    reader.last.op = "readBytes" /\ reader.ret.kind # "RangeError" =>
        /\ Remaining >= 4
        /\ IF Prefix < 0
           THEN /\ reader.ret = Null_
                /\ reader.offset = reader.last.from + 4
           ELSE /\ reader.ret.kind = "bytes"
                /\ Len(reader.ret.bytes) = Prefix
                /\ \A i \in 1..Prefix :
                       reader.ret.bytes[i] = reader.buf[reader.last.from + 4 + i]
                /\ reader.offset = reader.last.from + 4 + Prefix

\* A readBytes returned the two bytes after the length 2.
C19_Witness ==
    /\ reader.last.op = "readBytes" /\ reader.last.from = 0
    /\ reader.ret = Bytes_(<<255, 2>>)
    /\ reader.offset = 6

(***************************************************************************)
(* Duration (lib/types/duration.js): months, days and nanoseconds, its     *)
(* text form (toString) and the parser of that form (fromString).          *)
(*                                                                         *)
(* A 64-bit count of nanoseconds (a Long, or the BigInt it is kept as) is  *)
(* written with three digits, [h, s, n] for h hours + s seconds + n        *)
(* nanoseconds with s < 3600 and n < 10^9, and a sign; every unit of the   *)
(* text form is a whole number of one of these digits.  The text is the    *)
(* sequence of its tokens, <<number, unit>>, after an optional "-".        *)
(***************************************************************************)

\* Largest number of months and of days of the durations formatted.
MaxMonths == 30
MaxDays == 2

maxInt32 == 2147483647
daysPerWeek == 7
monthsPerYear == 12
secondsPerHour == 3600
nanosPerSecondDigit == 1000000000

\* A count of nanoseconds, not negative.
Long(h, s, n) == [h |-> h, s |-> s, n |-> n]
LongZERO == Long(0, 0, 0)
LongONE == Long(0, 0, 1)
\* Long.MAX_VALUE = 9223372036854775807 ns = 2562047 h 2836 s 854775807 ns.
LongMAX == Long(2562047, 2836, 854775807)
nanosPerMicro == Long(0, 0, 1000)
nanosPerMilli == Long(0, 0, 1000000)
nanosPerSecond == Long(0, 1, 0)
nanosPerMinute == Long(0, 60, 0)
nanosPerHour == Long(1, 0, 0)

\* Carries between the digits.
LongNorm(v) ==
    LET s1 == v.s + v.n \div nanosPerSecondDigit
    IN  Long(v.h + s1 \div secondsPerHour, s1 % secondsPerHour, v.n % nanosPerSecondDigit)

\* Long.prototype.lessThan.
lessThan(a, b) ==
    \/ a.h < b.h
    \/ a.h = b.h /\ a.s < b.s
    \/ a.h = b.h /\ a.s = b.s /\ a.n < b.n

\* Long.prototype.divide by a unit, as the number it prints.
divide(v, unit) ==
    IF unit.h > 0 THEN v.h
    ELSE IF unit.s > 0 THEN (v.h * secondsPerHour + v.s) \div unit.s
    ELSE (v.h * secondsPerHour + v.s) * (nanosPerSecondDigit \div unit.n) + v.n \div unit.n

\* Long.prototype.modulo by a unit.
modulo(v, unit) ==
    IF unit.h > 0 THEN Long(0, v.s, v.n)
    ELSE IF unit.s > 0 THEN Long(0, v.s % unit.s, v.n)
    ELSE Long(0, 0, v.n % unit.n)

\* nanoseconds.add(value.multiply(unit)).
addMultiple(v, value, unit) ==
    LongNorm(Long(v.h + value * unit.h, v.s + value * unit.s, v.n + value * unit.n))

\* A text: an optional "-" and the tokens after it.
Text(neg, parts) == [neg |-> neg, parts |-> parts]

\* Number.prototype.toFixed(0) of dividend / divisor: the nearest integer,
\* the larger one of two equally near.
toFixed0(dividend, divisor) == (2 * dividend + divisor) \div (2 * divisor)

\* append(dividend, divisor, unit) of toString: the text and the remainder.
append(value, dividend, divisor, unit) ==
    IF dividend = 0 \/ dividend < divisor THEN [value |-> value, rest |-> dividend]
    ELSE [value |-> Append(value, <<toFixed0(dividend, divisor), unit>>),
          rest |-> dividend % divisor]

\* append64(dividend, divisor, unit) of toString.
append64(value, dividend, divisor, unit) ==
    IF dividend = LongZERO \/ lessThan(dividend, divisor)
    THEN [value |-> value, rest |-> dividend]
    ELSE [value |-> Append(value, <<divide(dividend, divisor), unit>>),
          rest |-> modulo(dividend, divisor)]

Abs(x) == IF x < 0 THEN -x ELSE x

\* new Duration(months, days, nanoseconds); neg: the nanoseconds are negative.
Duration(months, days, neg, nanoseconds) ==
    [months |-> months, days |-> days, neg |-> neg, nanoseconds |-> nanoseconds]

\* toString that takes the sign from the months alone.
toStringSignOfMonths(d) ==
    LET y == append(<<>>, Abs(d.months), monthsPerYear, "y")
        mo == append(y.value, y.rest, 1, "mo")
        dd == append(mo.value, Abs(d.days), 1, "d")
        h == append64(dd.value, d.nanoseconds, nanosPerHour, "h")
        m == append64(h.value, h.rest, nanosPerMinute, "m")
        sec == append64(m.value, m.rest, nanosPerSecond, "s")
        ms == append64(sec.value, sec.rest, nanosPerMilli, "ms")
        us == append64(ms.value, ms.rest, nanosPerMicro, "us")
        ns == append64(us.value, us.rest, LongONE, "ns")
    IN  Text(d.months < 0,
             IF d.nanoseconds # LongZERO THEN ns.value ELSE dd.value)

\* Duration.prototype.toString.
toString(d) ==
    LET y == append(<<>>, Abs(d.months), monthsPerYear, "y")
        mo == append(y.value, y.rest, 1, "mo")
        dd == append(mo.value, Abs(d.days), 1, "d")
        h == append64(dd.value, d.nanoseconds, nanosPerHour, "h")
        m == append64(h.value, h.rest, nanosPerMinute, "m")
        sec == append64(m.value, m.rest, nanosPerSecond, "s")
        ms == append64(sec.value, sec.rest, nanosPerMilli, "ms")
        us == append64(ms.value, ms.rest, nanosPerMicro, "us")
        ns == append64(us.value, us.rest, LongONE, "ns")
    IN  Text(d.months < 0 \/ d.days < 0 \/ d.neg,
             IF d.nanoseconds # LongZERO THEN ns.value ELSE dd.value)

\* function Builder(isNegative); failed: a TypeError was thrown.
Builder(isNegative) ==
    [isNegative |-> isNegative, unitIndex |-> 0, months |-> 0, days |-> 0,
     nanoseconds |-> LongZERO, failed |-> FALSE]

\* Builder.prototype._validateOrder: TRUE when it throws.
validateOrder(b, unitIndex) == unitIndex = b.unitIndex \/ unitIndex <= b.unitIndex

\* Builder.prototype._validateMonths / _validateDays (through _validate32):
\* units > (maxInt32 - total) / perUnit.
validate32(total, units, perUnit) == units * perUnit > maxInt32 - total

\* Builder.prototype._validateNanos (through _validate64):
\* units > (Long.MAX_VALUE - nanoseconds) / nanosPerUnit.
validateNanos(b, units, nanosPerUnit) ==
    lessThan(LongMAX, addMultiple(b.nanoseconds, units, nanosPerUnit))

\* addYears, addMonths: months of the unit with index unitIndex.
addMonthsUnit(b, value, unitIndex, perUnit) ==
    IF validateOrder(b, unitIndex) \/ validate32(b.months, value, perUnit)
    THEN [b EXCEPT !.failed = TRUE]
    ELSE [b EXCEPT !.unitIndex = unitIndex, !.months = @ + value * perUnit]

\* addWeeks, addDays.
addDaysUnit(b, value, unitIndex, perUnit) ==
    IF validateOrder(b, unitIndex) \/ validate32(b.days, value, perUnit)
    THEN [b EXCEPT !.failed = TRUE]
    ELSE [b EXCEPT !.unitIndex = unitIndex, !.days = @ + value * perUnit]

\* addHours, addMinutes, addSeconds, addMillis, addMicros, addNanos.
addNanosUnit(b, value, unitIndex, nanosPerUnit) ==
    IF validateOrder(b, unitIndex) \/ validateNanos(b, value, nanosPerUnit)
    THEN [b EXCEPT !.failed = TRUE]
    ELSE [b EXCEPT !.unitIndex = unitIndex,
                   !.nanoseconds = addMultiple(@, value, nanosPerUnit)]

\* Builder.prototype.add(textValue, symbol): this._addMethods[symbol].
add(b, textValue, symbol) ==
    CASE symbol = "y" -> addMonthsUnit(b, textValue, 1, monthsPerYear)
      [] symbol = "mo" -> addMonthsUnit(b, textValue, 2, 1)
      [] symbol = "w" -> addDaysUnit(b, textValue, 3, daysPerWeek)
      [] symbol = "d" -> addDaysUnit(b, textValue, 4, 1)
      [] symbol = "h" -> addNanosUnit(b, textValue, 5, nanosPerHour)
      [] symbol = "m" -> addNanosUnit(b, textValue, 6, nanosPerMinute)
      [] symbol = "s" -> addNanosUnit(b, textValue, 7, nanosPerSecond)
      [] symbol = "ms" -> addNanosUnit(b, textValue, 8, nanosPerMilli)
      [] symbol = "us" -> addNanosUnit(b, textValue, 9, nanosPerMicro)
      [] symbol = "ns" -> addNanosUnit(b, textValue, 10, LongONE)

\* Builder.prototype.build: the Duration, with its sign.
build(b) ==
    IF b.isNegative
    THEN Duration(-b.months, -b.days, b.nanoseconds # LongZERO, b.nanoseconds)
    ELSE Duration(b.months, b.days, FALSE, b.nanoseconds)

\* The loop of parseStandardFormat over the matches of standardRegex.
RECURSIVE addAll(_, _)
addAll(b, parts) ==
    IF parts = <<>> \/ b.failed THEN b
    ELSE addAll(add(b, Head(parts)[1], Head(parts)[2]), Tail(parts))

\* parseStandardFormat(isNegative, source).
parseStandardFormat(isNegative, parts) ==
    LET b == addAll(Builder(isNegative), parts)
    IN  IF b.failed THEN [ok |-> FALSE, value |-> Duration(0, 0, FALSE, LongZERO)]
        ELSE [ok |-> TRUE, value |-> build(b)]

\* Duration.fromString(input): a text of toString never begins with "P".
fromString(input) == parseStandardFormat(input.neg, input.parts)

\* The nanoseconds of the durations formatted.
NanosSamples ==
    {Long(h, s, n) : h \in 0..1, s \in {0, 1, 61},
                     n \in {0, 1, 1001, 2000000, 999999999}}

\* The durations formatted.
DurationSamples ==
    {d \in {Duration(mo, dd, neg, ns) :
                mo \in -MaxMonths..MaxMonths, dd \in -MaxDays..MaxDays,
                neg \in BOOLEAN, ns \in NanosSamples} :
        d.neg => d.nanoseconds # LongZERO}

DurationInit ==
    /\ duration \in
         {[d |-> d, pc |-> "new", text |-> Text(FALSE, <<>>),
           parsed |-> [ok |-> FALSE, value |-> Duration(0, 0, FALSE, LongZERO)]] :
            d \in DurationSamples}
    /\ connected = FALSE /\ connecting = FALSE /\ isShuttingDown = FALSE
    /\ rustClient = 0 /\ attempts = <<>> /\ listeners = {}
    /\ calls = <<>>
    /\ reader = Unused /\ iteration = Unused /\ stream = Unused
    /\ localTime = Unused /\ policy = Unused

notDuration == <<connected, connecting, isShuttingDown, rustClient, attempts, listeners,
                 calls, reader, iteration, stream, localTime, policy>>

\* The application prints the duration.
DurationToString ==
    /\ duration.pc = "new"
    /\ duration' = [duration EXCEPT !.pc = "printed", !.text = toString(duration.d)]
    /\ UNCHANGED notDuration

\* The application parses the text printed.
DurationFromString ==
    /\ duration.pc = "printed"
    /\ duration' = [duration EXCEPT !.pc = "parsed", !.parsed = fromString(duration.text)]
    /\ UNCHANGED notDuration

DurationNext == DurationToString \/ DurationFromString

SpecDuration == DurationInit /\ [][DurationNext]_vars

\* The text form can print d: its parts do not differ in sign.
Printable(d) ==
    \/ d.months >= 0 /\ d.days >= 0 /\ ~d.neg
    \/ d.months <= 0 /\ d.days <= 0 /\ (d.neg \/ d.nanoseconds = LongZERO)

\* C20: for a duration the text form can print, parsing the text printed
\* gives a duration with the same months, days and nanoseconds.
C20_RoundTrip ==
    duration.pc = "parsed" /\ Printable(duration.d) =>
        /\ duration.parsed.ok
        /\ duration.parsed.value = duration.d

\* C21 as claimed: the text printed begins with "-" exactly when months, days
\* and nanoseconds are all at most 0 and one of them is not 0.
C21_NegativeIffAllNonPositive ==
    duration.pc # "new" =>
        (duration.text.neg <=>
            /\ duration.d.months <= 0 /\ duration.d.days <= 0
            /\ duration.d.neg \/ duration.d.nanoseconds = LongZERO
            /\ duration.d.months # 0 \/ duration.d.days # 0 \/ duration.d.nanoseconds # LongZERO)

\* C21: the text printed begins with "-" exactly when months, days or
\* nanoseconds are below 0; for a duration whose parts do not differ in sign
\* that is when all are at most 0 and one of them is not 0.
C21_NegativeIffSomeNegative ==
    duration.pc # "new" =>
        /\ duration.text.neg <=>
              (duration.d.months < 0 \/ duration.d.days < 0 \/ duration.d.neg)
        /\ Printable(duration.d) =>
              (duration.text.neg <=>
                  /\ duration.d.months <= 0 /\ duration.d.days <= 0
                  /\ duration.d.neg \/ duration.d.nanoseconds = LongZERO
                  /\ duration.d.months # 0 \/ duration.d.days # 0
                        \/ duration.d.nanoseconds # LongZERO)

\* A duration of positive months and negative days was printed with "-".
C21_Witness ==
    /\ duration.pc = "printed" /\ duration.text.neg
    /\ duration.d.months > 0 /\ duration.d.days < 0

(***************************************************************************)
(* The async iterator of a ResultSet (lib/types/result-set.js).  The       *)
(* ResultSet is the one a paged execute() returns (made by #rustyPaged),   *)
(* or one made by hand, as the unit tests do.  Pages, rows and paging      *)
(* states are numbered as for eachRow.  iteration.rs is the ResultSet,     *)
(* iteration.it the closure of the iterator (index, pageState, rows), and  *)
(* yielded, done, error tell what next() has returned so far: the rows,    *)
(* how often {done: true}, and what it rejected with.                      *)
(***************************************************************************)

\* Errors of next(): DriverInternalError names the property its message asks for.
NoError == [type |-> "none", property |-> ""]
DriverInternalError(property) == [type |-> "DriverInternalError", property |-> property]
TypeError == [type |-> "TypeError", property |-> ""]
FetchError == [type |-> "ResponseError", property |-> ""]

\* The ResultSet of page `page` with n rows (n = -1: no rows property) and the
\* paging state `state` (0: none): what the constructor sets, nextPageAsync
\* included, which it leaves undefined.
newResultSet(page, n, state) ==
    [hasRows |-> ResultSet(page, n).hasRows, rows |-> ResultSet(page, n).rows,
     rawPageState |-> state, nextPageAsync |-> FALSE, rawNextPageAsync |-> FALSE]

\* What #rustyPaged returns for a page: result[0] is the paging state
\* response of the session (wrapper: it is there; hasNextPage: what it says).
rustyPagedResult(page, n, wrapper, hasNextPage) ==
    [newResultSet(page, n, IF wrapper /\ hasNextPage THEN page ELSE 0)
        EXCEPT !.rawNextPageAsync = wrapper]

\* No iterator yet.
NoIterator == [kind |-> "none", index |-> 0, pageState |-> 0, hasRows |-> FALSE, rows |-> <<>>]

\* ResultSet[Symbol.asyncIterator](): the closure of the iterator it returns.
asyncIterator(rs) ==
    IF ~rs.hasRows \/ Len(rs.rows) = 0 THEN [NoIterator EXCEPT !.kind = "empty"]
    ELSE [kind |-> "paging", index |-> 0, pageState |-> rs.rawPageState,
          hasRows |-> TRUE, rows |-> rs.rows]

\* The end of next(): the next row of the page at hand, or {done: true}.
nextRow(i) ==
    IF ~i.it.hasRows THEN [i EXCEPT !.pc = "idle", !.error = TypeError]
    ELSE IF i.it.index < Len(i.it.rows)
    THEN [i EXCEPT !.pc = "idle", !.it.index = @ + 1,
                   !.yielded = Append(@, i.it.rows[i.it.index + 1])]
    ELSE [i EXCEPT !.pc = "idle", !.done = @ + 1]

\* next() of the iterator, up to its await.
iteratorNext(i) ==
    IF i.it.kind = "empty" THEN [i EXCEPT !.done = @ + 1]
    ELSE IF i.it.index >= Len(i.it.rows) /\ i.it.pageState # 0 THEN
        IF ~i.rs.nextPageAsync
        THEN [i EXCEPT !.error = DriverInternalError("nextPageAsync")]
        ELSE [i EXCEPT !.pc = "fetching", !.asked = Append(@, i.it.pageState)]
    ELSE nextRow(i)

\* next() after `await self.nextPageAsync(pageState)` has given rs.
iteratorFetched(i, rs) ==
    nextRow([i EXCEPT !.it.hasRows = rs.hasRows, !.it.rows = rs.rows, !.it.index = 0,
                      !.it.pageState = rs.rawPageState])

IterationInit ==
    /\ \E n \in -1..MaxRows, wrapper \in BOOLEAN, hasNextPage \in BOOLEAN,
          made \in BOOLEAN, installed \in BOOLEAN :
         /\ hasNextPage => wrapper
         /\ ~made => ~installed
         /\ iteration =
              [src |-> IF made THEN "made" ELSE "execute",
               rs |-> IF made
                      THEN [newResultSet(1, n, IF hasNextPage THEN 1 ELSE 0)
                               EXCEPT !.nextPageAsync = installed]
                      ELSE rustyPagedResult(1, n, wrapper, hasNextPage),
               served |-> <<[page |-> 1, n |-> n,
                             next |-> IF hasNextPage THEN 1 ELSE 0]>>,
               it |-> NoIterator, pc |-> "idle", asked |-> <<>>,
               yielded |-> <<>>, done |-> 0, error |-> NoError]
    /\ connected = FALSE /\ connecting = FALSE /\ isShuttingDown = FALSE
    /\ rustClient = 0 /\ attempts = <<>> /\ listeners = {}
    /\ calls = <<>>
    /\ reader = Unused /\ duration = Unused /\ stream = Unused
    /\ localTime = Unused /\ policy = Unused

notIteration == <<connected, connecting, isShuttingDown, rustClient, attempts, listeners,
                  calls, reader, duration, stream, localTime, policy>>

\* The application asks the ResultSet for its async iterator (for await ... of).
AsyncIterator ==
    /\ iteration.it.kind = "none"
    /\ iteration' = [iteration EXCEPT !.it = asyncIterator(iteration.rs)]
    /\ UNCHANGED notIteration

\* The application calls next(); it goes on until the iterator is done or fails.
IteratorNext ==
    /\ iteration.it.kind # "none" /\ iteration.pc = "idle"
    /\ iteration.done = 0 /\ iteration.error = NoError
    /\ iteration' = iteratorNext(iteration)
    /\ UNCHANGED notIteration

\* nextPageAsync resolves with the next page of the result.
FetchOk ==
    /\ iteration.pc = "fetching"
    /\ \E n \in -1..MaxRows, more \in BOOLEAN :
         LET page == Len(iteration.served) + 1
             state == IF more THEN page ELSE 0
         IN  /\ more => page < MaxPages + 1
             /\ iteration' = iteratorFetched(
                    [iteration EXCEPT !.served = Append(@, [page |-> page, n |-> n,
                                                            next |-> state])],
                    newResultSet(page, n, state))
    /\ UNCHANGED notIteration

\* nextPageAsync rejects.
FetchFail ==
    /\ iteration.pc = "fetching"
    /\ iteration' = [iteration EXCEPT !.pc = "idle", !.error = FetchError]
    /\ UNCHANGED notIteration

IterationNext == AsyncIterator \/ IteratorNext \/ FetchOk \/ FetchFail

SpecIteration == IterationInit /\ [][IterationNext]_vars

\* Sequence t begins with sequence s.
StartsWith(t, s) == Len(s) <= Len(t) /\ SubSeq(t, 1, Len(s)) = s

\* C12: async-iterating the ResultSet that a paged execute() returned yields
\* every row of every page, in order and exactly once, fetching the following
\* pages itself: the iterator never fails on its own, what it has yielded is
\* always the beginning of the rows of the pages, and it reports completion
\* only after a page with no paging state, having yielded all their rows.
C12_IteratesEveryPage ==
    iteration.src = "execute" =>
        /\ iteration.error \in {NoError, FetchError}
        /\ StartsWith(RowsOf(iteration.served), iteration.yielded)
        /\ iteration.done > 0 =>
              /\ iteration.served[Len(iteration.served)].next = 0
              /\ iteration.yielded = RowsOf(iteration.served)

\* C13: a ResultSet with buffered rows, a page state and no next-page
\* fetcher: once the iterator has gone past the buffered rows, it has yielded
\* them all, has not reported completion, and has rejected with the error
\* that says property rawNextPageAsync should be set.
C13_RejectsNamingRawNextPageAsync ==
    ( /\ iteration.rs.rawPageState # 0 /\ iteration.rs.rows # <<>>
      /\ ~iteration.rs.nextPageAsync /\ ~iteration.rs.rawNextPageAsync
      /\ iteration.pc = "idle"
      /\ iteration.done > 0 \/ iteration.error # NoError )
    => /\ iteration.yielded = iteration.rs.rows
       /\ iteration.done = 0
       /\ iteration.error = DriverInternalError("rawNextPageAsync")

(***************************************************************************)
(* Client.stream on a connected client.  The call is call 1 of calls: its  *)
(* record holds the closure of the eachRow that stream() runs.  stream is  *)
(* the ResultStream and the closure of stream(): sync, the setImmediate    *)
(* that is pending (immediate), the chunks handed to add() (chunks), the   *)
(* number of "error" events emitted (errors), of callback(err) calls       *)
(* (cb), whether the consumer is paused, and the function the valve holds  *)
(* back (held).  fetches lists the calls of nextPage() after the first     *)
(* page: who made each one and whether the consumer was paused then.       *)
(***************************************************************************)

\* The call of stream().
StreamCall == 1

\* resultStream.add(null): the end of the stream.
Null == <<0, 0>>

\* new types.ResultStream({ objectMode: 1 }), and `let sync = true`.
ResultStream(paused) ==
    [use |-> TRUE, made |-> FALSE, sync |-> TRUE, immediate |-> FALSE, chunks |-> <<>>,
     errors |-> 0, cb |-> 0, paused |-> paused, held |-> FALSE, fetches |-> <<>>]

\* resultStream.add(chunk) for each chunk of a sequence.
streamAdd(s, rows) == [s EXCEPT !.chunks = @ \o rows]

\* A call of eachRow's nextPage() by `via`, with the stream as it is then.
fetched(s, via) == [s EXCEPT !.fetches = Append(@, [via |-> via, paused |-> s.paused])]

RECURSIVE onFinish(_, _, _)

\* What follows a step of eachRow that may have called its callback
\* (eachRowFinished): onFinish, or a setImmediate while stream() is running.
eachRowFinished(before, r, s, encOk) ==
    IF r.cb = before.cb THEN <<r, s>>
    ELSE IF s.sync THEN <<r, [s EXCEPT !.immediate = TRUE]>>
    ELSE onFinish(r, s, encOk)

\* pageValve: result.nextPage(), that is Client.#rustyPaged up to its await.
pageValve(r, s, encOk) ==
    LET r1 == [r EXCEPT !.more = FALSE] IN
    eachRowFinished(r1, pageRequest(r1, encOk), fetched(s, "valve"), encOk)

\* resultStream._valve(pageValve): the function runs now, or when the
\* consumer reads again.
valve(r, s, encOk) ==
    IF s.paused THEN <<r, [s EXCEPT !.held = TRUE]>>
    ELSE pageValve(r, [s EXCEPT !.held = FALSE], encOk)

\* The end of onFinish: drop the valve, end the stream, call back.
finish(r, s) ==
    <<r, [streamAdd([s EXCEPT !.held = FALSE], <<Null>>) EXCEPT !.cb = @ + 1]>>

\* onFinish without the `return` after resultStream._valve(pageValve).
onFinishNoReturn(r, s, encOk) ==
    LET s1 == IF IsError(r.out) THEN [s EXCEPT !.errors = @ + 1] ELSE s IN
    IF ~IsError(r.out) /\ r.more
    THEN finish(valve(r, s1, encOk)[1], valve(r, s1, encOk)[2])
    ELSE finish(r, s1)

\* onFinish(err, result) of stream().
onFinish(r, s, encOk) ==
    LET s1 == IF IsError(r.out) THEN [s EXCEPT !.errors = @ + 1] ELSE s IN
    IF ~IsError(r.out) /\ r.more THEN valve(r, s1, encOk)
    ELSE finish(r, s1)

\* pageCallback(null, result) of the eachRow of stream(): rowCallback adds
\* each row to the stream, callback is eachRowFinished.
streamPageCallback(r, s, n, next, encOk) ==
    LET page == r.req.ps + 1
        queryResult == ResultSet(page, n)
        r1 == [r EXCEPT !.rowLength = @ + queryResult.rowLength,
                        !.delivered = IF queryResult.hasRows
                                      THEN @ \o queryResult.rows ELSE @,
                        !.served = Append(@, [page |-> page, n |-> n, next |-> next]),
                        !.req = NoReq]
        s1 == IF queryResult.hasRows THEN streamAdd(s, queryResult.rows) ELSE s
    IN  IF next # 0 THEN
            IF r1.auto
            THEN eachRowFinished(r1, pageRequest([r1 EXCEPT !.ps = next], encOk),
                                 fetched(s1, "eachRow"), encOk)
            ELSE eachRowFinished(r1, pageDone([r1 EXCEPT !.ps = next], TRUE), s1, encOk)
        ELSE eachRowFinished(r1, pageDone(r1, FALSE), s1, encOk)

\* The eachRow(query, params, options, rowCallback, eachRowFinished) of stream().
streamEachRow(r, s, optsOk, named, encOk) ==
    IF ~optsOk THEN eachRowFinished(r, SettleSync(r, OptionsError), s, encOk)
    ELSE IF named /\ ~r.prep
    THEN eachRowFinished(r, Settle(r, NamedParamsError), [s EXCEPT !.sync = FALSE], encOk)
    ELSE eachRowFinished(r, pageRequest(r, encOk), [s EXCEPT !.sync = FALSE], encOk)

StreamInit ==
    /\ connected = TRUE /\ connecting = FALSE /\ isShuttingDown = FALSE
    /\ rustClient = 1 /\ attempts = <<Ok>> /\ listeners = {}
    /\ calls = [c \in Calls |-> NewCall]
    /\ \E paused \in BOOLEAN : stream = ResultStream(paused)
    /\ reader = Unused /\ duration = Unused /\ iteration = Unused
    /\ localTime = Unused /\ policy = Unused

notStream == <<connected, connecting, isShuttingDown, rustClient, attempts, listeners,
               reader, duration, iteration, localTime, policy>>

\* calls and stream become what a step of stream() made of them.
Becomes(pair) ==
    /\ calls' = [calls EXCEPT ![StreamCall] = pair[1]]
    /\ stream' = pair[2]
    /\ UNCHANGED notStream

\* Client.stream(query, params, options, callback), up to its return.
Stream ==
    /\ ~stream.made
    /\ \E optsOk \in BOOLEAN, named \in BOOLEAN, prepared \in BOOLEAN,
          autoPage \in BOOLEAN, encOk \in BOOLEAN :
         LET r == [Issued(StreamCall, "stream") EXCEPT
                      !.prep = optsOk /\ prepared, !.auto = optsOk /\ autoPage]
             pair == streamEachRow(r, [stream EXCEPT !.made = TRUE], optsOk, named, encOk)
         IN  Becomes(<<pair[1], [pair[2] EXCEPT !.sync = FALSE]>>)

\* eachRowFinishedImmediate: the setImmediate of eachRowFinished fires.
Immediate ==
    /\ stream.immediate
    /\ \E encOk \in BOOLEAN :
         Becomes(onFinish(calls[StreamCall], [stream EXCEPT !.immediate = FALSE], encOk))

\* prepareStatement resolves for a page request of the stream.
StreamPrepareOk ==
    /\ stream.made /\ calls[StreamCall].pc = "prepare"
    /\ \E encOk \in BOOLEAN, encNext \in BOOLEAN :
         LET r == calls[StreamCall] IN
         Becomes(eachRowFinished(r,
                    IF ~encOk THEN Settle(r, ArgumentError)
                    ELSE [r EXCEPT !.pc = "request", !.reqs = @ + 1,
                                   !.req = [ps |-> r.ps, seen |-> Len(r.delivered)]],
                    stream, encNext))

\* prepareStatement rejects for a page request of the stream.
StreamPrepareFail ==
    /\ stream.made /\ calls[StreamCall].pc = "prepare"
    /\ Becomes(onFinish(Settle(calls[StreamCall], ResponseError), stream, TRUE))

\* The backend session answers a page request of the stream with a page.
StreamPageOk ==
    /\ stream.made /\ calls[StreamCall].pc = "request"
    /\ \E n \in -1..MaxRows, more \in BOOLEAN, encOk \in BOOLEAN :
         /\ more => calls[StreamCall].req.ps + 1 < MaxPages
         /\ Becomes(streamPageCallback(calls[StreamCall], stream, n,
                       IF more THEN calls[StreamCall].req.ps + 1 ELSE 0, encOk))

\* The backend session answers a page request of the stream with an error.
StreamPageFail ==
    /\ stream.made /\ calls[StreamCall].pc = "request"
    /\ Becomes(onFinish(Settle(calls[StreamCall], ResponseError), stream, TRUE))

\* The consumer of the stream pauses.
StreamPause ==
    /\ ~stream.paused
    /\ stream' = [stream EXCEPT !.paused = TRUE]
    /\ UNCHANGED calls /\ UNCHANGED notStream

\* The consumer reads again: the valve lets the function it held back run.
StreamRead ==
    /\ stream.paused
    /\ \E encOk \in BOOLEAN :
         IF stream.held
         THEN Becomes(pageValve(calls[StreamCall],
                                [stream EXCEPT !.paused = FALSE, !.held = FALSE], encOk))
         ELSE Becomes(<<calls[StreamCall], [stream EXCEPT !.paused = FALSE]>>)

StreamNext ==
    \/ Stream
    \/ Immediate
    \/ StreamPrepareOk
    \/ StreamPrepareFail
    \/ StreamPageOk
    \/ StreamPageFail
    \/ StreamPause
    \/ StreamRead

SpecStream == StreamInit /\ [][StreamNext]_vars

\* The places of the chunks of the stream where its end was signalled.
Ends == {i \in 1..Len(stream.chunks) : stream.chunks[i] = Null}

\* C14: a stream() call signals the end of the stream exactly once: never
\* twice, with no row pushed after it, only after an error was emitted or
\* after all rows of the pages up to the final one (the one without paging
\* state) were pushed, and always once its eachRow has finished for good.
C14_EndOfStreamOnce ==
    /\ Cardinality(Ends) <= 1
    /\ \A i \in Ends : i = Len(stream.chunks)
    /\ Ends # {} =>
          \/ stream.errors > 0
          \/ /\ calls[StreamCall].served # <<>>
             /\ LastState(calls[StreamCall].served) = 0
             /\ stream.chunks = Append(RowsOf(calls[StreamCall].served), Null)
    /\ (stream.made /\ calls[StreamCall].pc = "done" /\ ~stream.immediate) => Ends # {}

\* The stream ended after the rows of two pages, without any error.
C14_Witness ==
    /\ Ends # {} /\ stream.errors = 0
    /\ Len(calls[StreamCall].served) = 2
    /\ Len(stream.chunks) >= 4

\* C15: every call of nextPage() of a stream() was let through by the valve
\* of the stream, and the consumer was not paused when it was made.
C15_FetchOnlyThroughValve ==
    \A i \in 1..Len(stream.fetches) :
        stream.fetches[i].via = "valve" /\ ~stream.fetches[i].paused

(***************************************************************************)
(* LocalTime (lib/types/local-time.js).  A Long is its eight bytes, most   *)
(* significant first, in two's complement, as toBuffer writes them; its    *)
(* arithmetic wraps at 64 bits.  A JavaScript number given to a factory is *)
(* m * 2^e or its negative, NaN or undefined.  Beside the Long that the    *)
(* code computes, localTime.would is the total of nanoseconds the input    *)
(* stands for, computed without any wrapping in ExactBytes bytes.          *)
(***************************************************************************)

\* The bytes of a Long, and of the totals computed exactly.
LongBytes == 8
ExactBytes == 12

\* The natural number n < 2^31 in w bytes.
ofNat(n, w) == [i \in 1..w |-> IF w - i > 3 THEN 0 ELSE (n \div 256^(w - i)) % 256]

\* Long.prototype.multiply by a small number k, byte by byte from the last.
RECURSIVE mulCarry(_, _, _, _)
mulCarry(b, k, i, carry) ==
    IF i = 0 THEN b
    ELSE mulCarry([b EXCEPT ![i] = (b[i] * k + carry) % 256], k, i - 1,
                  (b[i] * k + carry) \div 256)

multiply(b, k) == mulCarry(b, k, Len(b), 0)

\* Long.prototype.add.
RECURSIVE addCarry(_, _, _, _)
addCarry(a, b, i, carry) ==
    IF i = 0 THEN a
    ELSE addCarry([a EXCEPT ![i] = (a[i] + b[i] + carry) % 256], b, i - 1,
                  (a[i] + b[i] + carry) \div 256)

addLong(a, b) == addCarry(a, b, Len(a), 0)

\* Long.prototype.negate.
negate(b) == addLong([i \in 1..Len(b) |-> 255 - b[i]], ofNat(1, Len(b)))

\* b * 2^e.
RECURSIVE shiftLeft(_, _)
shiftLeft(b, e) ==
    IF e >= 16 THEN shiftLeft(multiply(b, 2^16), e - 16) ELSE multiply(b, 2^e)

isNegative(b) == b[1] >= 128

\* Long.prototype.lessThan (signed).
longLessThan(a, b) ==
    IF isNegative(a) # isNegative(b) THEN isNegative(a)
    ELSE \E i \in 1..Len(a) : a[i] < b[i] /\ \A j \in 1..(i - 1) : a[j] = b[j]

\* b in w bytes, with its sign.
widen(b, w) ==
    [i \in 1..w |-> IF i <= w - Len(b) THEN (IF isNegative(b) THEN 255 ELSE 0)
                    ELSE b[i - (w - Len(b))]]

\* The last w bytes of b.
low(b, w) == [i \in 1..w |-> b[Len(b) - w + i]]

\* const maxNanos = Long.fromString("86399999999999"), that is 0x4E94914EFFFF.
maxNanos == <<0, 0, 78, 148, 145, 78, 255, 255>>
LongMinValue == <<128, 0, 0, 0, 0, 0, 0, 0>>
LongMaxValue == <<127, 255, 255, 255, 255, 255, 255, 255>>

nanoSecInMillis == 1000000
millisInHour == 3600000
millisInMin == 60000
millisInDay == 86400000

\* JavaScript numbers: m * 2^e, negative or not; NaN; undefined.
Number(neg, m, e) == [kind |-> "number", neg |-> neg, m |-> m, e |-> e]
Integer(n) == IF n < 0 THEN Number(TRUE, -n, 0) ELSE Number(FALSE, n, 0)
NaN == [kind |-> "NaN", neg |-> FALSE, m |-> 0, e |-> 0]
NoNumber == [kind |-> "undefined", neg |-> FALSE, m |-> 0, e |-> 0]

\* The value of a number, exactly.
exact(x) ==
    IF x.neg THEN negate(shiftLeft(ofNat(x.m, ExactBytes), x.e))
    ELSE shiftLeft(ofNat(x.m, ExactBytes), x.e)

\* Long.fromNumber(value): MIN_VALUE and MAX_VALUE beyond 64 bits.
fromNumber(x) ==
    IF longLessThan(exact(x), widen(LongMinValue, ExactBytes)) THEN LongMinValue
    ELSE IF longLessThan(widen(LongMaxValue, ExactBytes), exact(x)) THEN LongMaxValue
    ELSE low(exact(x), LongBytes)

\* No LocalTime was made: the call threw.  wellFormed is set by the callers:
\* the input was numbers, or a text of hour, minute, second and nanoseconds
\* within their ranges.
Thrown(op, would) ==
    [op |-> op, made |-> FALSE, value |-> ofNat(0, LongBytes), would |-> would,
     wellFormed |-> TRUE]

\* new LocalTime(totalNanoseconds), called by op.
LocalTime(op, totalNanoseconds, would) ==
    IF longLessThan(totalNanoseconds, ofNat(0, LongBytes))
       \/ longLessThan(maxNanos, totalNanoseconds)
    THEN Thrown(op, would)
    ELSE [op |-> op, made |-> TRUE, value |-> totalNanoseconds, would |-> would,
          wellFormed |-> TRUE]

\* The total of nanoseconds that milliseconds and nanoseconds stand for.
totalOf(milliseconds, nanoseconds) ==
    addLong(multiply(exact(milliseconds), nanoSecInMillis),
            IF nanoseconds.kind = "number" THEN exact(nanoseconds)
            ELSE ofNat(0, ExactBytes))

\* LocalTime.fromMilliseconds(milliseconds, nanoseconds), called by op.
fromMilliseconds(op, milliseconds, nanoseconds) ==
    LET ns == IF nanoseconds.kind = "undefined" THEN Integer(0) ELSE nanoseconds IN
    IF milliseconds.kind # "number" \/ ns.kind = "NaN"
    THEN Thrown(op, ofNat(0, ExactBytes))
    ELSE LocalTime(op,
                   addLong(multiply(fromNumber(milliseconds), nanoSecInMillis),
                           fromNumber(ns)),
                   totalOf(milliseconds, ns))

\* LocalTime.fromDate(date, nanoseconds): t is date.getTime() +
\* date.getTimezoneOffset() * -millisInMin; % takes the sign of t.
fromDate(t, nanoseconds) ==
    fromMilliseconds("fromDate",
                     Integer(IF t < 0 THEN -((-t) % millisInDay) ELSE t % millisInDay),
                     nanoseconds)

\* LocalTime.fromString(value): value has n parts between colons; second and
\* nanos are what parts[2] holds before and after its dot (digits: the
\* number of digits after the dot, 0 without a dot).
fromStringLocalTime(v) ==
    LET millis == v.hour * millisInHour + v.minute * millisInMin
                    + (IF v.n = 3 THEN v.second * 1000 ELSE 0)
        would == totalOf(Integer(millis), Integer(IF v.n = 3 THEN v.nanos ELSE 0))
    IN  IF v.n > 3 THEN Thrown("fromString", would)
        ELSE IF v.hour < 0 \/ v.hour >= 24 THEN Thrown("fromString", would)
        ELSE IF v.n > 1 /\ (v.minute < 0 \/ v.minute >= 60) THEN Thrown("fromString", would)
        ELSE IF v.n = 3 /\ (v.second < 0 \/ v.second >= 60) THEN Thrown("fromString", would)
        ELSE IF v.n = 3 /\ v.digits > 9 THEN Thrown("fromString", would)
        ELSE fromMilliseconds("fromString",
                              IF v.n = 1 THEN NaN ELSE Integer(millis),
                              Integer(IF v.n = 3 /\ v.digits > 0 THEN v.nanos ELSE 0))

\* LocalTime.fromBuffer(value): the Long of readInt32BE(4) and readInt32BE(0).
fromBuffer(value) == LocalTime("fromBuffer", value, widen(value, ExactBytes))

\* The Longs given to the constructor and, as buffers, to fromBuffer.
LongSamples ==
    {ofNat(0, LongBytes), ofNat(1, LongBytes), negate(ofNat(1, LongBytes)),
     maxNanos, addLong(maxNanos, ofNat(1, LongBytes)),
     addLong(maxNanos, negate(ofNat(1, LongBytes))),
     LongMinValue, LongMaxValue, multiply(ofNat(millisInDay, LongBytes), 1000)}

\* The milliseconds and nanoseconds given to fromMilliseconds.
MillisSamples ==
    {Integer(n) : n \in {-1, 0, 1, millisInDay - 1, millisInDay}}
        \cup {Number(FALSE, 1, 58), Number(FALSE, 1, 70), Number(TRUE, 1, 70), NaN}

NanosOfDay ==
    {Integer(n) : n \in {-1, 0, 1, nanoSecInMillis - 1, nanoSecInMillis, 999999999}}
        \cup {NaN, NoNumber}

\* The texts given to fromString.
TextSamples ==
    [n : 1..4, hour : {-1, 0, 23, 24}, minute : {0, 59, 60}, second : {0, 59, 60},
     digits : {0, 9, 10}, nanos : {0, 1, 999999999}]

\* The dates given to fromDate, as milliseconds of local time since 1970.
DateSamples == {-1, 0, 1, millisInDay - 1, millisInDay, millisInDay + 1}

NoLocalTime == Thrown("none", ofNat(0, ExactBytes))

LocalTimeInit ==
    /\ localTime = NoLocalTime
    /\ connected = FALSE /\ connecting = FALSE /\ isShuttingDown = FALSE
    /\ rustClient = 0 /\ attempts = <<>> /\ listeners = {}
    /\ calls = <<>>
    /\ reader = Unused /\ duration = Unused /\ iteration = Unused /\ stream = Unused
    /\ policy = Unused

notLocalTime == <<connected, connecting, isShuttingDown, rustClient, attempts, listeners,
                  calls, reader, duration, iteration, stream, policy>>

\* new LocalTime(totalNanoseconds) with a Long.
NewLocalTime ==
    /\ localTime = NoLocalTime
    /\ \E total \in LongSamples :
         localTime' = LocalTime("new", total, widen(total, ExactBytes))
    /\ UNCHANGED notLocalTime

FromMilliseconds ==
    /\ localTime = NoLocalTime
    /\ \E ms \in MillisSamples, ns \in NanosOfDay :
         localTime' = [fromMilliseconds("fromMilliseconds", ms, ns) EXCEPT
                          !.wellFormed = ms.kind = "number" /\ ns.kind # "NaN"]
    /\ UNCHANGED notLocalTime

FromDate ==
    /\ localTime = NoLocalTime
    /\ \E t \in DateSamples, ns \in NanosOfDay :
         localTime' = [fromDate(t, ns) EXCEPT !.wellFormed = ns.kind # "NaN"]
    /\ UNCHANGED notLocalTime

FromString ==
    /\ localTime = NoLocalTime
    /\ \E v \in TextSamples :
         localTime' = [fromStringLocalTime(v) EXCEPT
                          !.wellFormed = /\ v.n \in {2, 3}
                                         /\ v.hour \in 0..23 /\ v.minute \in 0..59
                                         /\ v.n = 3 => v.second \in 0..59 /\ v.digits <= 9]
    /\ UNCHANGED notLocalTime

FromBuffer ==
    /\ localTime = NoLocalTime
    /\ \E value \in LongSamples : localTime' = fromBuffer(value)
    /\ UNCHANGED notLocalTime

LocalTimeNext == NewLocalTime \/ FromMilliseconds \/ FromDate \/ FromString \/ FromBuffer

SpecLocalTime == LocalTimeInit /\ [][LocalTimeNext]_vars

\* The total b of nanoseconds is within a day.
WithinDay(b) ==
    /\ ~isNegative(b)
    /\ ~longLessThan(widen(maxNanos, Len(b)), b)

\* C22: a LocalTime exists only with a total of nanoseconds within a day:
\* the constructor and every factory throw for an input that stands for a
\* total outside of it, and make the LocalTime for a well-formed input that
\* stands for a total inside.
C22_OnlyWithinDay ==
    localTime.op # "none" =>
        /\ localTime.made => WithinDay(localTime.value)
        /\ localTime.wellFormed => (localTime.made <=> WithinDay(localTime.would))

(***************************************************************************)
(* AllowListPolicy (lib/policies/load-balancing.js).  A host is its        *)
(* address.  policy.child is the query plan of the child policy: the hosts *)
(* its iterator returns, in order (or its error); pos is how many of them  *)
(* the iterator has returned.  yielded and done are what the filtered      *)
(* iterator has returned so far: the hosts, and how often {done: true}.    *)
(***************************************************************************)

MaxPlan == 3
Hosts == {"10.0.0.1:9042", "10.0.0.2:9042", "10.0.0.3:9042"}

\* The plans a child policy may return.
Plans == UNION {[1..n -> Hosts] : n \in 0..MaxPlan}

\* new AllowListPolicy(childPolicy, allowList), whose child will answer
\* newQueryPlan with plan, or with an error.
AllowListPolicy(allowList, plan, childFails) ==
    [allowList |-> allowList, child |-> plan, childFails |-> childFails,
     pc |-> "new", pos |-> 0, yielded |-> <<>>, done |-> 0]

\* AllowListPolicy._contains(host).
contains(p, host) == host \in p.allowList

RECURSIVE filterNext(_)

\* next() of the iterator of _filter that returns the item of the child as it is.
filterNextAll(p) ==
    IF p.pos >= Len(p.child) THEN [p EXCEPT !.done = @ + 1]
    ELSE [p EXCEPT !.pos = @ + 1, !.yielded = Append(@, p.child[p.pos + 1])]

\* next() of the iterator that _filter returns: childIterator.next(), again
\* while the item is a host that is not in the allow list.
filterNext(p) ==
    IF p.pos >= Len(p.child) THEN [p EXCEPT !.done = @ + 1]
    ELSE IF ~contains(p, p.child[p.pos + 1]) THEN filterNext([p EXCEPT !.pos = @ + 1])
    ELSE [p EXCEPT !.pos = @ + 1, !.yielded = Append(@, p.child[p.pos + 1])]

AllowListInit ==
    /\ \E allowList \in SUBSET Hosts, plan \in Plans, childFails \in BOOLEAN :
         policy = AllowListPolicy(allowList, plan, childFails)
    /\ connected = FALSE /\ connecting = FALSE /\ isShuttingDown = FALSE
    /\ rustClient = 0 /\ attempts = <<>> /\ listeners = {}
    /\ calls = <<>>
    /\ reader = Unused /\ duration = Unused /\ iteration = Unused /\ stream = Unused
    /\ localTime = Unused

notPolicy == <<connected, connecting, isShuttingDown, rustClient, attempts, listeners,
               calls, reader, duration, iteration, stream, localTime>>

\* AllowListPolicy.newQueryPlan(keyspace, info, callback): the callback gets
\* the error of the child, or the filtered iterator.
NewQueryPlan ==
    /\ policy.pc = "new"
    /\ policy' = [policy EXCEPT !.pc = IF policy.childFails THEN "error" ELSE "plan"]
    /\ UNCHANGED notPolicy

\* The caller takes the next item of the plan, until the plan is done.
FilterNext ==
    /\ policy.pc = "plan" /\ policy.done = 0
    /\ policy' = filterNext(policy)
    /\ UNCHANGED notPolicy

AllowListNext == NewQueryPlan \/ FilterNext

SpecAllowList == AllowListInit /\ [][AllowListNext]_vars

\* Host h is in the allow list of the policy.
Allowed(h) == h \in policy.allowList

\* C23: what the plan of an AllowListPolicy has returned is what the plan of
\* its child has returned, without the hosts that are not in the allow list
\* and in the same order; it has consumed the child's plan no further than
\* the last host it returned, and it is done only when the child's plan is.
C23_ChildPlanFiltered ==
    /\ policy.yielded = SelectSeq(SubSeq(policy.child, 1, policy.pos), Allowed)
    /\ policy.done > 0 => policy.pos = Len(policy.child)
    /\ policy.done = 0 /\ policy.pos > 0 => Allowed(policy.child[policy.pos])
    /\ policy.pc # "plan" => policy.pos = 0 /\ policy.done = 0

\* A plan of three hosts was filtered down to its first and last host.
C23_Witness ==
    /\ policy.done = 1 /\ Len(policy.child) = 3
    /\ policy.yielded = <<policy.child[1], policy.child[3]>>
    /\ ~Allowed(policy.child[2])

(***************************************************************************)
(* DefaultLoadBalancingPolicy, its configuration and the policies that     *)
(* wrap it (lib/policies/load-balancing.js, lib/policies/index.js).        *)
(* JavaScript values are strings here: "undefined", "true", "false", and   *)
(* the names of datacenters.  policy.config is the one object that #config *)
(* refers to, policy.created is a copy of it taken at creation, and        *)
(* policy.got is what the last call returned or threw.                     *)
(***************************************************************************)

undefined == "undefined"

Datacenters == {"dc1", "dc2"}

\* !value of JavaScript, for a string or undefined.
falsy(value) == value \in {undefined, ""}

\* new LoadBalancingConfig(): every field is there, none is set.
LoadBalancingConfig ==
    [preferDatacenter |-> undefined, preferRack |-> undefined, tokenAware |-> undefined,
     permitDcFailover |-> undefined, enableShufflingReplicas |-> undefined]

\* The object literal {localDc, permitDcFailover}: a field it does not have
\* reads as undefined, and localDc is no field of a LoadBalancingConfig.
ObjectWithLocalDc(localDc, permitDcFailover) ==
    [LoadBalancingConfig EXCEPT !.permitDcFailover = permitDcFailover]

\* No argument given to the constructor.
NoConfig == [argument |-> FALSE]

\* The configurations an application passes to the constructor.
ConfigSamples ==
    {[LoadBalancingConfig EXCEPT !.preferDatacenter = dc, !.tokenAware = ta,
                                 !.permitDcFailover = f] :
        dc \in {undefined, "dc1"}, ta \in {undefined, "true", "false"},
        f \in {undefined, "true", "false"}}

NoPolicy == [made |-> FALSE]

\* new DefaultLoadBalancingPolicy(config).
DefaultLoadBalancingPolicy(via, localDc, config) ==
    LET c == IF config = NoConfig THEN LoadBalancingConfig ELSE config
    IN  [made |-> TRUE, via |-> via, localDc |-> localDc, config |-> c, created |-> c,
         wrappers |-> {}, got |-> [called |-> FALSE]]

\* policies.defaultLoadBalancingPolicy(localDc).
defaultLoadBalancingPolicy(localDc) ==
    IF falsy(localDc)
    THEN DefaultLoadBalancingPolicy("defaultLoadBalancingPolicy", localDc, NoConfig)
    ELSE DefaultLoadBalancingPolicy("defaultLoadBalancingPolicy", localDc,
                                    ObjectWithLocalDc(localDc, "false"))

\* DefaultLoadBalancingPolicy.getRustConfiguration(): the object itself.
getRustConfiguration(p) == [p EXCEPT !.got = [returned |-> p.config]]

\* TokenAwarePolicy.getRustConfiguration() with p as the child policy: it sets
\* tokenAware on the object that the child returns.
tokenAwareGetRustConfiguration(p) ==
    LET options == [getRustConfiguration(p).got.returned EXCEPT !.tokenAware = "true"]
    IN  [p EXCEPT !.config = options, !.got = [returned |-> options]]

errorMsg == "This load balancing policy is implemented in Rust."
notSupportedByDriver == "Currently this load balancing policy is not supported by the driver"

ConfigInit ==
    /\ policy = NoPolicy
    /\ connected = FALSE /\ connecting = FALSE /\ isShuttingDown = FALSE
    /\ rustClient = 0 /\ attempts = <<>> /\ listeners = {}
    /\ calls = <<>>
    /\ reader = Unused /\ duration = Unused /\ iteration = Unused /\ stream = Unused
    /\ localTime = Unused

NewDefaultLoadBalancingPolicy ==
    /\ policy = NoPolicy
    /\ \E config \in ConfigSamples \cup {NoConfig} :
         policy' = DefaultLoadBalancingPolicy("constructor", undefined, config)
    /\ UNCHANGED notPolicy

PoliciesDefaultLoadBalancingPolicy ==
    /\ policy = NoPolicy
    /\ \E localDc \in Datacenters \cup {undefined, ""} :
         policy' = defaultLoadBalancingPolicy(localDc)
    /\ UNCHANGED notPolicy

\* new TokenAwarePolicy(policy), new AllowListPolicy(policy, allowList).
Wrap ==
    /\ policy.made
    /\ \E w \in {"TokenAwarePolicy", "AllowListPolicy"} :
         /\ w \notin policy.wrappers
         /\ policy' = [policy EXCEPT !.wrappers = @ \cup {w}]
    /\ UNCHANGED notPolicy

GetRustConfiguration ==
    /\ policy.made
    /\ policy' = getRustConfiguration(policy)
    /\ UNCHANGED notPolicy

TokenAwareGetRustConfiguration ==
    /\ policy.made /\ "TokenAwarePolicy" \in policy.wrappers
    /\ policy' = tokenAwareGetRustConfiguration(policy)
    /\ UNCHANGED notPolicy

\* AllowListPolicy has no getRustConfiguration of its own: the one of
\* LoadBalancingPolicy throws.
AllowListGetRustConfiguration ==
    /\ policy.made /\ "AllowListPolicy" \in policy.wrappers
    /\ policy' = [policy EXCEPT !.got = [thrown |-> notSupportedByDriver]]
    /\ UNCHANGED notPolicy

\* init, getDistance and newQueryPlan of a policy implemented in Rust throw.
ThrowNotSupported ==
    /\ policy.made
    /\ policy' = [policy EXCEPT !.got = [thrown |-> errorMsg]]
    /\ UNCHANGED notPolicy

\* DefaultLoadBalancingPolicy.getOptions() throws.
GetOptions ==
    /\ policy.made
    /\ policy' = [policy EXCEPT !.got = [thrown |-> "Not implemented."]]
    /\ UNCHANGED notPolicy

\* TokenAwarePolicy.getOptions(): the name of the class of the child.
TokenAwareGetOptions ==
    /\ policy.made /\ "TokenAwarePolicy" \in policy.wrappers
    /\ policy' = [policy EXCEPT !.got = [returned |-> "childPolicy: DefaultLoadBalancingPolicy"]]
    /\ UNCHANGED notPolicy

ConfigNext ==
    \/ NewDefaultLoadBalancingPolicy
    \/ PoliciesDefaultLoadBalancingPolicy
    \/ Wrap
    \/ GetRustConfiguration
    \/ TokenAwareGetRustConfiguration
    \/ AllowListGetRustConfiguration
    \/ ThrowNotSupported
    \/ GetOptions
    \/ TokenAwareGetOptions

SpecConfig == ConfigInit /\ [][ConfigNext]_vars

\* C24: the configuration of a DefaultLoadBalancingPolicy is the one it was
\* created with, whatever was called since on it or on a policy wrapping it.
C24_ConfigurationFixedAtCreation ==
    policy.made => policy.config = policy.created

\* C25: policies.defaultLoadBalancingPolicy(localDc) with the name of a
\* datacenter makes a policy whose configuration prefers that datacenter and
\* does not permit datacenter failover; without a name, one whose
\* configuration prefers no datacenter.
C25_FactoryPrefersLocalDc ==
    policy.made /\ policy.via = "defaultLoadBalancingPolicy" =>
        IF falsy(policy.localDc)
        THEN policy.created.preferDatacenter = undefined
        ELSE /\ policy.created.preferDatacenter = policy.localDc
             /\ policy.created.permitDcFailover = "false"

(***************************************************************************)
(* LegacyDefaultLoadBalancingPolicy (lib/policies/load-balancing.js).      *)
(* Hosts are numbers: 1..MaxLocal are the hosts of the local datacenter    *)
(* that pass the filter, RemoteHost is a host of another datacenter, and 0 *)
(* is null.  policy holds _index and the state of one query plan: the      *)
(* generators of _getPreferredHostFirst, yieldReplicasFirst and            *)
(* _getLocalHosts, and what the plan has yielded.  What the policy reads   *)
(* from the cluster is chosen where it reads it: the replicas, which hosts *)
(* are up, unhealthy or newly up, the shuffle, the dice and _compare.      *)
(***************************************************************************)

MaxLocal == 4

LocalHosts == 1..MaxLocal
RemoteHost == MaxLocal + 1
AllHosts == LocalHosts \cup {RemoteHost}

\* _index wraps to 0 when it gets here.
maxIndex == 2147483647

\* The values of _index that a plan may find.
IndexSamples == {0, 1, 2, maxIndex - 2, maxIndex - 1}

\* Arrays of distinct hosts in ascending order: what _hosts.values() and
\* client.getReplicas() return.
HostArrays ==
    {a \in UNION {[1..n -> AllHosts] : n \in 0..(MaxLocal + 1)} :
        \A i, j \in DOMAIN a : i < j => a[i] < a[j]}

\* getReplicas() returned null.
NoReplicas == <<0>>

\* The elements of an array.
Elements(a) == {a[i] : i \in DOMAIN a}

\* utils.shuffleArray(a): every order of the elements of a.
Shuffles(a) ==
    {[i \in DOMAIN a |-> a[q[i]]] :
        q \in {f \in [DOMAIN a -> DOMAIN a] : \A i, j \in DOMAIN a : f[i] = f[j] => i = j}}

\* temp = a[j]; a[j] = a[i]; a[i] = temp.
exchange(a, i, j) == [a EXCEPT ![i] = a[j], ![j] = a[i]]

\* The policy after init(), with no query plan made.
LegacyDefaultLoadBalancingPolicy(index) ==
    [index |-> index, pc |-> "idle",
     preferredHost |-> 0, preferredYielded |-> FALSE,
     hasReplicas |-> FALSE, replicas |-> <<>>, ri |-> 0,
     started |-> FALSE, hosts |-> <<>>, initialIndex |-> 0, i |-> 0,
     yielded |-> <<>>, nexts |-> 0,
     sent |-> [called |-> FALSE, before |-> <<>>, after |-> <<>>, unhealthy |-> {}]]

\* _getFilteredLocalHosts(): the hosts that pass the filter and are in the
\* local datacenter.
getFilteredLocalHosts == [i \in 1..MaxLocal |-> i]

\* _getIndex(): the index, and the policy with the next one.
getIndex(p) ==
    [p EXCEPT !.initialIndex = p.index,
              !.index = IF p.index + 1 = maxIndex THEN 0 ELSE p.index + 1]

RECURSIVE sendUnhealthyLoopToLast(_, _, _, _, _)
RECURSIVE sendUnhealthyLoop(_, _, _, _, _)

\* _sendUnhealthyToTheBack whose target is always the last position.
sendUnhealthyLoopToLast(replicas, unhealthyReplicas, unhealthy, i, counter) ==
    IF i < 1 \/ counter >= unhealthyReplicas THEN replicas
    ELSE IF replicas[i] \notin unhealthy
    THEN sendUnhealthyLoopToLast(replicas, unhealthyReplicas, unhealthy, i - 1, counter)
    ELSE LET targetIndex == Len(replicas)
         IN  sendUnhealthyLoopToLast(
                 IF targetIndex # i THEN exchange(replicas, i, targetIndex) ELSE replicas,
                 unhealthyReplicas, unhealthy, i - 1, counter + 1)

\* The loop of _sendUnhealthyToTheBack, at position i (from 1) with counter
\* unhealthy replicas moved; unhealthy are the hosts that fail _healthCheck.
sendUnhealthyLoop(replicas, unhealthyReplicas, unhealthy, i, counter) ==
    IF i < 1 \/ counter >= unhealthyReplicas THEN replicas
    ELSE IF replicas[i] \notin unhealthy
    THEN sendUnhealthyLoop(replicas, unhealthyReplicas, unhealthy, i - 1, counter)
    ELSE LET targetIndex == Len(replicas) - counter
         IN  sendUnhealthyLoop(
                 IF targetIndex # i THEN exchange(replicas, i, targetIndex) ELSE replicas,
                 unhealthyReplicas, unhealthy, i - 1, counter + 1)

\* _sendUnhealthyToTheBack(replicas, unhealthyReplicas).
sendUnhealthyToTheBack(replicas, unhealthyReplicas, unhealthy) ==
    sendUnhealthyLoop(replicas, unhealthyReplicas, unhealthy, Len(replicas), 0)

\* The first loop of _getReplicasAndLocalHosts from replica i on: the
\* replicas that are local and up, the replica that is up since the latest
\* time, and the number of unhealthy replicas seen while there was none.
RECURSIVE filterReplicas(_, _, _, _, _, _)
filterReplicas(replicas, up, unhealthy, since, i, acc) ==
    IF i > Len(replicas) THEN acc
    ELSE LET h == replicas[i] IN
         IF h \notin LocalHosts \/ h \notin up
         THEN filterReplicas(replicas, up, unhealthy, since, i + 1, acc)
         ELSE LET newer == since[h] # 0 /\ since[h] > acc.newlyUpReplicaTimestamp
                  newlyUpReplica == IF newer THEN h ELSE acc.newlyUpReplica
              IN  filterReplicas(replicas, up, unhealthy, since, i + 1,
                      [filteredReplicas |-> Append(acc.filteredReplicas, h),
                       newlyUpReplica |-> newlyUpReplica,
                       newlyUpReplicaTimestamp |->
                           IF newer THEN since[h] ELSE acc.newlyUpReplicaTimestamp,
                       unhealthyReplicas |->
                           IF newlyUpReplica = 0 /\ h \in unhealthy
                           THEN acc.unhealthyReplicas + 1 ELSE acc.unhealthyReplicas])

\* yieldReplicasFirst(replicas), not yet started.
yieldReplicasFirst(p, replicas) == [p EXCEPT !.hasReplicas = TRUE, !.replicas = replicas]

\* _getReplicasAndLocalHosts after the shuffle: replicas is the shuffled
\* array, found the result of the first loop.
reorderReplicas(p, replicas, found, unhealthy, dice, compare) ==
    IF Len(replicas) < 3 THEN yieldReplicasFirst(p, replicas)
    ELSE LET sends == /\ found.newlyUpReplica = 0
                      /\ found.unhealthyReplicas > 0
                      /\ found.unhealthyReplicas < (Len(replicas) \div 2) + 1
             r1 == IF found.newlyUpReplica = 0
                   THEN IF sends
                        THEN sendUnhealthyToTheBack(replicas, found.unhealthyReplicas, unhealthy)
                        ELSE replicas
                   ELSE IF (found.newlyUpReplica = replicas[1]
                               \/ found.newlyUpReplica = replicas[2]) /\ dice
                   THEN exchange(replicas,
                                 IF found.newlyUpReplica = replicas[1] THEN 1 ELSE 2,
                                 Len(replicas))
                   ELSE replicas
             r2 == IF compare THEN exchange(r1, 1, 2) ELSE r1
             p1 == IF sends
                   THEN [p EXCEPT !.sent = [called |-> TRUE, before |-> replicas,
                                            after |-> r1, unhealthy |-> unhealthy]]
                   ELSE p
         IN  yieldReplicasFirst(p1, r2)

\* canBeYield of _getLocalHosts that lets every host through.
canBeYieldAny(p, h) == TRUE

\* canBeYield of _getLocalHosts: h is not one of the local replicas, if any
\* were given.
canBeYield(p, h) == ~p.hasReplicas \/ h \notin Elements(p.replicas)

\* next() of the generator of _getLocalHosts while up are the hosts that are
\* up: the policy with the host it yields as item, 0 when it is done.
RECURSIVE getLocalHostsNext(_, _)
getLocalHostsNext(p, up) ==
    IF ~p.started
    THEN getLocalHostsNext([getIndex(p) EXCEPT !.started = TRUE,
                                               !.hosts = getFilteredLocalHosts, !.i = 0], up)
    ELSE IF p.i >= Len(p.hosts) THEN [policy |-> p, item |-> 0]
    ELSE LET n == Len(p.hosts)
             \* (i + initialIndex) % hosts.length
             h == p.hosts[(((p.i % n) + (p.initialIndex % n)) % n) + 1]
             p1 == [p EXCEPT !.i = @ + 1]
         IN  IF canBeYield(p, h) /\ h \in up THEN [policy |-> p1, item |-> h]
             ELSE getLocalHostsNext(p1, up)

\* next() of the iterable that _getPreferredHostFirst wraps: the generator of
\* yieldReplicasFirst, or the one of _getLocalHosts.
iterableNext(p, up) ==
    IF p.hasReplicas /\ p.ri < Len(p.replicas)
    THEN [policy |-> [p EXCEPT !.ri = @ + 1], item |-> p.replicas[p.ri + 1]]
    ELSE getLocalHostsNext(p, up)

\* next() of the generator of _getPreferredHostFirst.
RECURSIVE getPreferredHostFirstNext(_, _)
getPreferredHostFirstNext(p, up) ==
    IF ~p.preferredYielded
    THEN [policy |-> [p EXCEPT !.preferredYielded = TRUE], item |-> p.preferredHost]
    ELSE LET n == iterableNext(p, up) IN
         IF n.item # 0 /\ n.item = p.preferredHost
         THEN getPreferredHostFirstNext(n.policy, up)
         ELSE n

\* next() of the query plan.
planNext(p, up) ==
    LET n == IF p.preferredHost # 0 THEN getPreferredHostFirstNext(p, up)
             ELSE iterableNext(p, up)
    IN  IF n.item = 0 THEN [n.policy EXCEPT !.pc = "done", !.nexts = @ + 1]
        ELSE [n.policy EXCEPT !.yielded = Append(@, n.item), !.nexts = @ + 1]

\* A function on the hosts that is 0 but for at most one host: isUpSince,
\* as far as _isHostNewlyUp lets it through (0 is null).
SinceSamples ==
    {[h \in AllHosts |-> 0]} \cup
    {[h \in AllHosts |-> IF h = n THEN 1 ELSE 0] : n \in LocalHosts}

LegacyInit ==
    /\ \E index \in IndexSamples : policy = LegacyDefaultLoadBalancingPolicy(index)
    /\ connected = FALSE /\ connecting = FALSE /\ isShuttingDown = FALSE
    /\ rustClient = 0 /\ attempts = <<>> /\ listeners = {}
    /\ calls = <<>>
    /\ reader = Unused /\ duration = Unused /\ iteration = Unused /\ stream = Unused
    /\ localTime = Unused

\* LegacyDefaultLoadBalancingPolicy.newQueryPlan(keyspace, executionOptions,
\* callback): routed tells whether there are a keyspace and a routing key.
LegacyNewQueryPlan ==
    /\ policy.pc = "idle"
    /\ \E routed \in BOOLEAN, preferredHost \in {0, 1, 2, RemoteHost} :
         LET p == [policy EXCEPT !.pc = "plan", !.preferredHost = preferredHost] IN
         IF ~routed THEN policy' = p
         ELSE \E replicas \in HostArrays \cup {NoReplicas} :
                IF replicas = NoReplicas THEN policy' = p
                ELSE \E up \in SUBSET LocalHosts, since \in SinceSamples,
                        dice \in BOOLEAN, compare \in BOOLEAN :
                     \E unhealthy \in SUBSET (Elements(replicas) \cap up) :
                       LET found == filterReplicas(replicas, up, unhealthy, since, 1,
                                        [filteredReplicas |-> <<>>, newlyUpReplica |-> 0,
                                         newlyUpReplicaTimestamp |-> 0,
                                         unhealthyReplicas |-> 0])
                       IN  \E shuffled \in Shuffles(found.filteredReplicas) :
                             policy' = reorderReplicas(p, shuffled, found, unhealthy,
                                                       dice, compare)
    /\ UNCHANGED notPolicy

\* The caller takes the next host of the query plan; up are the hosts that
\* are up at that time.
LegacyNext ==
    /\ policy.pc = "plan"
    /\ \E up \in SUBSET LocalHosts : policy' = planNext(policy, up)
    /\ UNCHANGED notPolicy

LegacyPolicyNext == LegacyNewQueryPlan \/ LegacyNext

SpecLegacy == LegacyInit /\ [][LegacyPolicyNext]_vars

\* No host is twice in the array a.
Distinct(a) == \A i, j \in DOMAIN a : a[i] = a[j] => i = j

\* C29: a query plan of LegacyDefaultLoadBalancingPolicy never yields a host
\* twice; so it has yielded no more hosts than there are, and every next()
\* but the one that ended it has yielded a host.
C29_PlanFiniteAndDistinct ==
    /\ Distinct(policy.yielded)
    /\ Len(policy.yielded) <= Cardinality(AllHosts)
    /\ policy.nexts = Len(policy.yielded) + (IF policy.pc = "done" THEN 1 ELSE 0)

\* A plan with a preferred host of another datacenter, two replicas and the
\* other local hosts has come to its end.
C29_Witness ==
    /\ policy.pc = "done" /\ policy.preferredHost = RemoteHost
    /\ Len(policy.replicas) = 2 /\ Len(policy.yielded) = MaxLocal + 1

\* C30: the array that _sendUnhealthyToTheBack leaves holds the hosts it was
\* given, each once, and no unhealthy replica stands before a healthy one;
\* that is still so in the array as the plan yields it.
C30_UnhealthyLast ==
    policy.sent.called =>
        /\ Elements(policy.sent.after) = Elements(policy.sent.before)
        /\ Len(policy.sent.after) = Len(policy.sent.before)
        /\ Distinct(policy.sent.after)
        /\ \A a \in {policy.sent.after, policy.replicas} :
             \A i, j \in DOMAIN a :
                 i < j /\ a[i] \in policy.sent.unhealthy => a[j] \in policy.sent.unhealthy

\* Two unhealthy replicas, the first and the third of four, were sent to the
\* back.
C30_Witness ==
    /\ policy.sent.called /\ Len(policy.sent.before) = 4
    /\ policy.sent.unhealthy = {policy.sent.before[1], policy.sent.before[3]}
    /\ policy.sent.after # policy.sent.before
====
